---- MODULE Spec2Model ----
(***************************************************************************)
(* Model of the TEMPO grid core of fshahrouei/Ozone:                       *)
(*   - Server/py/tempo_to_json.py: the regridder (longitude normalisation, *)
(*     block mean, nearest reindexing, per-product sanitisation);          *)
(*   - Server/py/build_tempo_forecast_summaries.py: the temporal           *)
(*     aggregator (latest snapshot, hour-of-day climatology).              *)
(*                                                                         *)
(* The pure functions are operators; each group of functions has its own   *)
(* specification that draws the inputs in Init and applies the function in *)
(* an action:                                                              *)
(*   SpecSan     the two sanitizers                                        *)
(*   SpecLatest  build_latest                                              *)
(*   SpecHod     build_hod                                                 *)
(*   SpecAgg     build_latest and build_hod on one collection              *)
(*   SpecBlock   block_reduce_mean                                         *)
(*   SpecReindex reindex_to                                                *)
(*   SpecLon     normalize_lon_and_align                                   *)
(*   SpecHour    compute_local_hour                                        *)
(*   SpecConvert convert_nc_to_json                                        *)
(*   SpecCloud   convert_nc_to_json with a cloud sample                    *)
(*   SpecSync    sync_product                                              *)
(*   SpecStep    infer_step and its fallback in the conversion             *)
(*   SpecTrim    the trimming to a multiple of the block factor            *)
(*   SpecMerge   build_latest under reordering and sharding                *)
(*   SpecShard   build_hod under reordering and sharding                   *)
(*   SpecMain    main of build_tempo_forecast_summaries                    *)
(***************************************************************************)
EXTENDS Integers, Sequences, FiniteSets, TLC

VARIABLES
    \* -- the sanitizers
    sanPc,        \* "ready", "sanitize_grid", "sanitize_array", "KeyError"; "idle" elsewhere
    sanProduct,   \* product id handed to the sanitizer
    sanIn,        \* input cells (a flattened grid), 1..SanCells -> Float
    sanOut,       \* output cells of the sanitizer that ran
    \* -- the temporal aggregator
    stack_in,     \* the granule collection as the caller supplied it
    values_stack, \* the caller's list object (build_latest sorts it in place)
    latestPc,     \* build_latest: "ready", "returned", "ValueError"; "idle" elsewhere
    latest,       \* build_latest: per-cell latest value
    latest_ts,    \* build_latest: per-cell end timestamp of the latest value
    age_h,        \* build_latest: per-cell age in hours
    newest_end_ts,\* build_latest: end timestamp of the last granule of the sorted list
    now_ts,       \* build_latest: time.time() read by the call
    hodPc,        \* build_hod: "ready", "returned", "ValueError"; "idle" elsewhere
    lon2d,        \* build_hod argument: longitude of every cell
    min_per_hour, \* build_hod argument
    hod_sum,      \* build_hod: 24 per-cell sums
    hod_cnt,      \* build_hod: 24 per-cell counts
    hour_counts,  \* build_hod: 24 global counters
    hod_grids,    \* build_hod: 24 per-cell means
    \* -- block_reduce_mean
    blkPc,        \* "ready", "returned", "ValueError"; "idle" elsewhere
    blk_arr,      \* arr: the native grid, a sequence of rows
    by_y,         \* rows per block
    by_x,         \* columns per block
    blk_out,      \* the coarse grid returned
    \* -- reindex_to
    rixPc,        \* "ready", "returned"; "idle" elsewhere
    lat_src,      \* source latitude axis (ascending)
    lon_src,      \* source longitude axis (ascending)
    src,          \* source grid, rows by lat_src, columns by lon_src
    lat_dst,      \* destination latitude points
    lon_dst,      \* destination longitude points
    iy,           \* the source row index (from 0) chosen for every lat_dst point
    ix,           \* the source column index (from 0) chosen for every lon_dst point
    rix_out,      \* the grid returned
    \* -- normalize_lon_and_align
    lonPc,        \* "ready", "returned", "ValueError"; "idle" elsewhere
    lon1d,        \* the native longitude axis
    arr2d,        \* the native grid, a sequence of rows
    order,        \* np.argsort(lon_norm), indices from 1
    lon_sorted,   \* the axis returned
    arr_sorted,   \* the grid returned
    lon_sorted2,  \* the axis returned by a second call on (lon_sorted, arr_sorted)
    arr_sorted2,  \* the grid returned by that second call
    \* -- compute_local_hour
    hourPc,       \* "ready", "returned"; "idle" elsewhere
    hour_ts,      \* utc_end_ts
    hour_lon,     \* the 1-D longitude axis of the first granule
    hour_lon2d,   \* lon_deg_2d: the axis tiled over the rows
    hour_grid,    \* the grid of local hours returned
    \* -- convert_nc_to_json
    cvPc,         \* "ready", then how the call ended: "written", "None", "raise"; "idle" elsewhere
    cv_g,         \* the native sample of the granule (the NC file)
    cv_product,   \* product
    cv_grid_deg,  \* grid_deg
    cv_cloud_th,  \* cloud_th
    cv_dry_run,   \* dry_run
    cv_cld,       \* the cloud sample select_best_cldo4 names, if any
    cv_out,       \* the intermediate values and the payload of the call
    \* -- sync_product
    syPc,         \* "ready", "loop", "tail", "returned"; "idle" elsewhere
    sy_index,     \* the input index: a sequence of (gid, native sample), in key order
    sy_dry_run,   \* dry_run
    sy_limit,     \* limit (0 stands for None)
    sy_wanted,    \* wanted_gids
    sy_pos,       \* position of the loop in wanted_gids
    sy_json,      \* the granule ids that have a JSON file in the json directory
    sy_done,      \* done
    sy_log,       \* what happened to each granule the loop has reached
    sy_out_index, \* the granule ids listed in json/index.json
    \* -- infer_step
    stepPc,       \* "ready", "returned", "ValueError"; "idle" elsewhere
    step_vec,     \* the axis handed to infer_step
    step_out,     \* the step it returned
    \* -- main of build_tempo_forecast_summaries
    mainPc,       \* "ready", "done", "exit"; "idle" elsewhere
    main_product, \* args.product
    main_granules,\* the granule files of the window, in index order
    main_lon,     \* the "lon" axis of the granule files
    main_H,       \* H of the first granule
    main_W        \* W of the first granule

sanVars == <<sanPc, sanProduct, sanIn, sanOut>>

latestVars == <<latestPc, latest, latest_ts, age_h, newest_end_ts, now_ts>>

hodVars == <<hodPc, lon2d, min_per_hour, hod_sum, hod_cnt, hour_counts, hod_grids>>

aggVars == <<stack_in, values_stack, latestVars, hodVars>>

blkVars == <<blkPc, blk_arr, by_y, by_x, blk_out>>

rixVars == <<rixPc, lat_src, lon_src, src, lat_dst, lon_dst, iy, ix, rix_out>>

lonVars == <<lonPc, lon1d, arr2d, order, lon_sorted, arr_sorted, lon_sorted2, arr_sorted2>>

hourVars == <<hourPc, hour_ts, hour_lon, hour_lon2d, hour_grid>>

cvVars == <<cvPc, cv_g, cv_product, cv_grid_deg, cv_cloud_th, cv_dry_run, cv_cld, cv_out>>

syVars == <<syPc, sy_index, sy_dry_run, sy_limit, sy_wanted, sy_pos, sy_json, sy_done,
            sy_log, sy_out_index>>

stepVars == <<stepPc, step_vec, step_out>>

mainVars == <<mainPc, main_product, main_granules, main_lon, main_H, main_W>>

\* the groups of the specifications of the pipeline steps
pipeVars == <<hourVars, cvVars, syVars, stepVars, mainVars>>

vars == <<sanVars, aggVars, blkVars, rixVars, lonVars, pipeVars>>

(***************************************************************************)
(* Floating-point values of the sanitizers.  The product limits span       *)
(* 1.0 .. 1e20, so a value is kept in decimal scientific notation          *)
(* m * 10^e with a one-digit mantissa (m = 0 only for zero), or is one of  *)
(* the three non-finite values.                                            *)
(***************************************************************************)
Fin(m, e) == [k |-> "fin", m |-> m, e |-> e]

NaN == [k |-> "nan", m |-> 0, e |-> 0]

PosInf == [k |-> "+inf", m |-> 0, e |-> 0]

NegInf == [k |-> "-inf", m |-> 0, e |-> 0]

Zero == Fin(0, 0)

\* np.isfinite
IsFinite(v) == v.k = "fin"

\* magnitude order of two finite values of the same non-zero sign
MagLt(a, b) ==
    LET ma == IF a.m < 0 THEN -a.m ELSE a.m
        mb == IF b.m < 0 THEN -b.m ELSE b.m
    IN  \/ a.e < b.e
        \/ a.e = b.e /\ ma < mb

\* IEEE a < b: false whenever one side is NaN
FLt(a, b) ==
    CASE a.k = "nan" \/ b.k = "nan" -> FALSE
      [] a.k = "+inf" -> FALSE
      [] b.k = "-inf" -> FALSE
      [] a.k = "-inf" -> TRUE
      [] b.k = "+inf" -> TRUE
      [] OTHER ->
           IF a.m < 0 /\ b.m < 0 THEN MagLt(b, a)
           ELSE IF a.m > 0 /\ b.m > 0 THEN MagLt(a, b)
           ELSE (a.m < 0 /\ b.m >= 0) \/ (a.m = 0 /\ b.m > 0)

FGt(a, b) == FLt(b, a)

FLe(a, b) == a.k # "nan" /\ b.k # "nan" /\ (a = b \/ FLt(a, b))

FGe(a, b) == FLe(b, a)

\* ---------- constants and product maps ----------

ABSURD_NEG == Fin(-1, 20)

ABSURD_POS == Fin(1, 20)

KnownProducts == {"no2", "hcho", "o3tot", "cldo4"}

\* tempo_to_json.PRODUCTS (the fields the sanitizer and the cloud mask read)
PRODUCTS ==
    [p \in KnownProducts |->
        CASE p = "no2"   -> [uses_cloud |-> TRUE,  allow_zero |-> FALSE, hard_min |-> Zero, hard_max |-> Fin(5, 16)]
          [] p = "hcho"  -> [uses_cloud |-> TRUE,  allow_zero |-> FALSE, hard_min |-> Zero, hard_max |-> Fin(3, 16)]
          [] p = "o3tot" -> [uses_cloud |-> TRUE,  allow_zero |-> TRUE,  hard_min |-> Zero, hard_max |-> Fin(7, 2)]
          [] p = "cldo4" -> [uses_cloud |-> FALSE, allow_zero |-> TRUE,  hard_min |-> Zero, hard_max |-> Fin(1, 0)]]

\* build_tempo_forecast_summaries.SPEC
SPEC ==
    [p \in KnownProducts |->
        CASE p = "no2"   -> [allow_zero |-> FALSE, min |-> Zero, max |-> Fin(5, 16)]
          [] p = "hcho"  -> [allow_zero |-> FALSE, min |-> Zero, max |-> Fin(3, 16)]
          [] p = "o3tot" -> [allow_zero |-> TRUE,  min |-> Zero, max |-> Fin(7, 2)]
          [] p = "cldo4" -> [allow_zero |-> TRUE,  min |-> Zero, max |-> Fin(1, 0)]]

\* SPEC.get(product, default)
spec_for(product) ==
    IF product \in DOMAIN SPEC THEN SPEC[product]
    ELSE [allow_zero |-> FALSE, min |-> Zero, max |-> Fin(1, 0)]

\* ---------- sanitizers, one cell at a time (the code is element-wise) ----------

\* mutant: a value above max is invalidated instead of clamped
sanitize_grid_cell_maxnan(v, product) ==
    LET spec == spec_for(product)
        g1 == IF ~IsFinite(v) THEN NaN ELSE v
        g2 == IF FLt(g1, ABSURD_NEG) THEN NaN ELSE g1
        g3 == IF FGt(g2, ABSURD_POS) THEN NaN ELSE g2
        g4 == IF ~spec.allow_zero
              THEN (IF FLe(g3, Zero) THEN NaN ELSE g3)
              ELSE (IF FLt(g3, spec.min) THEN spec.min ELSE g3)
    IN  IF FGt(g4, spec.max) THEN NaN ELSE g4

\* mutant: with allow_zero a value below min is invalidated instead of clamped
sanitize_grid_cell_minnan(v, product) ==
    LET spec == spec_for(product)
        g1 == IF ~IsFinite(v) THEN NaN ELSE v
        g2 == IF FLt(g1, ABSURD_NEG) THEN NaN ELSE g1
        g3 == IF FGt(g2, ABSURD_POS) THEN NaN ELSE g2
        g4 == IF ~spec.allow_zero
              THEN (IF FLe(g3, Zero) THEN NaN ELSE g3)
              ELSE (IF FLt(g3, spec.min) THEN NaN ELSE g3)
    IN  IF FGt(g4, spec.max) THEN spec.max ELSE g4

\* build_tempo_forecast_summaries.sanitize_grid, per cell
sanitize_grid_cell(v, product) ==
    LET spec == spec_for(product)
        g1 == IF ~IsFinite(v) THEN NaN ELSE v                   \* g[~np.isfinite(g)] = nan
        g2 == IF FLt(g1, ABSURD_NEG) THEN NaN ELSE g1           \* g[g < ABSURD_NEG] = nan
        g3 == IF FGt(g2, ABSURD_POS) THEN NaN ELSE g2           \* g[g > ABSURD_POS] = nan
        g4 == IF ~spec.allow_zero
              THEN (IF FLe(g3, Zero) THEN NaN ELSE g3)          \* g[g <= 0.0] = nan
              ELSE (IF FLt(g3, spec.min) THEN spec.min ELSE g3) \* g[g < min] = min
    IN  IF FGt(g4, spec.max) THEN spec.max ELSE g4              \* g[g > max] = max

sanitize_grid(grid, product) ==
    [i \in DOMAIN grid |-> sanitize_grid_cell(grid[i], product)]

\* mutant: the logical maximum is not applied
sanitize_array_cell_nomax(v, product) ==
    LET spec == PRODUCTS[product]
        A1 == IF ~IsFinite(v) THEN NaN ELSE v
        A2 == IF FLt(A1, ABSURD_NEG) THEN NaN ELSE A1
        A3 == IF FGt(A2, ABSURD_POS) THEN NaN ELSE A2
    IN  IF ~spec.allow_zero
        THEN (IF FLe(A3, Zero) THEN NaN ELSE A3)
        ELSE (IF FLt(A3, spec.hard_min) THEN spec.hard_min ELSE A3)

\* mutant: without allow_zero only negative values are invalidated (< for <=)
sanitize_array_cell_keepzero(v, product) ==
    LET spec == PRODUCTS[product]
        A1 == IF ~IsFinite(v) THEN NaN ELSE v
        A2 == IF FLt(A1, ABSURD_NEG) THEN NaN ELSE A1
        A3 == IF FGt(A2, ABSURD_POS) THEN NaN ELSE A2
        A4 == IF ~spec.allow_zero
              THEN (IF FLt(A3, Zero) THEN NaN ELSE A3)
              ELSE (IF FLt(A3, spec.hard_min) THEN spec.hard_min ELSE A3)
    IN  IF FGt(A4, spec.hard_max) THEN spec.hard_max ELSE A4

\* tempo_to_json._sanitize_array_for_product, per cell (product is a key of PRODUCTS)
sanitize_array_cell(v, product) ==
    LET spec == PRODUCTS[product]
        A1 == IF ~IsFinite(v) THEN NaN ELSE v                   \* A[~np.isfinite(A)] = nan
        A2 == IF FLt(A1, ABSURD_NEG) THEN NaN ELSE A1           \* A[A < ABSURD_NEG] = nan
        A3 == IF FGt(A2, ABSURD_POS) THEN NaN ELSE A2           \* A[A > ABSURD_POS] = nan
        A4 == IF ~spec.allow_zero
              THEN (IF FLe(A3, Zero) THEN NaN ELSE A3)          \* A[A <= 0.0] = nan
              ELSE (IF FLt(A3, spec.hard_min) THEN spec.hard_min ELSE A3)
    IN  IF FGt(A4, spec.hard_max) THEN spec.hard_max ELSE A4    \* A[A > hard_max] = hard_max

sanitize_array_for_product(arr, product) ==
    [i \in DOMAIN arr |-> sanitize_array_cell(arr[i], product)]

\* ---------- the parts of the state a specification does not use ----------

AggIdle ==
    /\ stack_in = <<>>
    /\ values_stack = <<>>
    /\ latestPc = "idle"
    /\ latest = <<>>
    /\ latest_ts = <<>>
    /\ age_h = <<>>
    /\ newest_end_ts = 0
    /\ now_ts = 0
    /\ hodPc = "idle"
    /\ lon2d = <<>>
    /\ min_per_hour = 0
    /\ hod_sum = <<>>
    /\ hod_cnt = <<>>
    /\ hour_counts = <<>>
    /\ hod_grids = <<>>

BlkIdle ==
    /\ blkPc = "idle"
    /\ blk_arr = <<>>
    /\ by_y = 1
    /\ by_x = 1
    /\ blk_out = <<>>

RixIdle ==
    /\ rixPc = "idle"
    /\ lat_src = <<>>
    /\ lon_src = <<>>
    /\ src = <<>>
    /\ lat_dst = <<>>
    /\ lon_dst = <<>>
    /\ iy = <<>>
    /\ ix = <<>>
    /\ rix_out = <<>>

LonIdle ==
    /\ lonPc = "idle"
    /\ lon1d = <<>>
    /\ arr2d = <<>>
    /\ order = <<>>
    /\ lon_sorted = <<>>
    /\ arr_sorted = <<>>
    /\ lon_sorted2 = <<>>
    /\ arr_sorted2 = <<>>

HourIdle ==
    /\ hourPc = "idle"
    /\ hour_ts = 0
    /\ hour_lon = <<>>
    /\ hour_lon2d = <<>>
    /\ hour_grid = <<>>

CvIdle ==
    /\ cvPc = "idle"
    /\ cv_g = <<>>
    /\ cv_product = "no2"
    /\ cv_grid_deg = <<>>
    /\ cv_cloud_th = <<>>
    /\ cv_dry_run = FALSE
    /\ cv_cld = <<>>
    /\ cv_out = <<>>

SyIdle ==
    /\ syPc = "idle"
    /\ sy_index = <<>>
    /\ sy_dry_run = FALSE
    /\ sy_limit = 0
    /\ sy_wanted = <<>>
    /\ sy_pos = 0
    /\ sy_json = {}
    /\ sy_done = 0
    /\ sy_log = <<>>
    /\ sy_out_index = {}

StepIdle ==
    /\ stepPc = "idle"
    /\ step_vec = <<>>
    /\ step_out = 0

MainIdle ==
    /\ mainPc = "idle"
    /\ main_product = ""
    /\ main_granules = <<>>
    /\ main_lon = <<>>
    /\ main_H = 0
    /\ main_W = 0

PipeIdle == HourIdle /\ CvIdle /\ SyIdle /\ StepIdle /\ MainIdle

\* ---------- SpecSan: the sanitizers on every input of a bounded set ----------

SanCells == 2

SanMants == {-2, -1, 1, 2, 3, 5, 7}

SanExps == {-1, 0, 2, 16, 20}

SanValues ==
    {NaN, PosInf, NegInf, Zero} \cup {Fin(m, e) : m \in SanMants, e \in SanExps}

\* the four known ids and one id that is in no table
SanProducts == KnownProducts \cup {"aerosol"}

SanIdle ==
    /\ sanPc = "idle"
    /\ sanProduct = "no2"
    /\ sanIn = <<>>
    /\ sanOut = <<>>

InitSan ==
    /\ PipeIdle
    /\ AggIdle
    /\ BlkIdle
    /\ RixIdle
    /\ LonIdle
    /\ sanPc = "ready"
    /\ sanProduct \in SanProducts
    /\ sanIn \in [1..SanCells -> SanValues]
    /\ sanOut = [i \in 1..SanCells |-> NaN]

\* build_tempo_forecast_summaries.sanitize_grid(grid, product)
SanitizeGrid ==
    /\ sanPc = "ready"
    /\ sanOut' = sanitize_grid(sanIn, sanProduct)
    /\ sanPc' = "sanitize_grid"
    /\ UNCHANGED <<sanProduct, sanIn, aggVars, blkVars, rixVars, lonVars, pipeVars>>

\* tempo_to_json._sanitize_array_for_product(arr, product); PRODUCTS[product]
\* raises KeyError for an id that is not in the table
SanitizeArray ==
    /\ sanPc = "ready"
    /\ IF sanProduct \in DOMAIN PRODUCTS
       THEN /\ sanOut' = sanitize_array_for_product(sanIn, sanProduct)
            /\ sanPc' = "sanitize_array"
       ELSE /\ sanPc' = "KeyError"
            /\ UNCHANGED sanOut
    /\ UNCHANGED <<sanProduct, sanIn, aggVars, blkVars, rixVars, lonVars, pipeVars>>

NextSan == SanitizeGrid \/ SanitizeArray

SpecSan == InitSan /\ [][NextSan]_vars

\* ---------- properties of the sanitizers (SpecSan) ----------

SanDone == sanPc \in {"sanitize_grid", "sanitize_array"}

\* the limits the sanitizer that ran has used
SanAllowZero ==
    IF sanPc = "sanitize_grid" THEN spec_for(sanProduct).allow_zero
    ELSE PRODUCTS[sanProduct].allow_zero

SanMin ==
    IF sanPc = "sanitize_grid" THEN spec_for(sanProduct).min
    ELSE PRODUCTS[sanProduct].hard_min

SanMax ==
    IF sanPc = "sanitize_grid" THEN spec_for(sanProduct).max
    ELSE PRODUCTS[sanProduct].hard_max

\* C5 as stated: every finite input above the product's max comes out as exactly
\* max, for both sanitizers and every product.
C5_AnyFiniteAboveMaxClamped ==
    SanDone =>
        \A i \in DOMAIN sanIn :
            (IsFinite(sanIn[i]) /\ FGt(sanIn[i], SanMax)) => sanOut[i] = SanMax

\* C5 amended: every finite input above the product's max and not above
\* ABSURD_POS (1e20) comes out as exactly max (never missing); an input above
\* ABSURD_POS comes out missing.
C5_AboveMaxClamped ==
    SanDone =>
        \A i \in DOMAIN sanIn :
            /\ (IsFinite(sanIn[i]) /\ FGt(sanIn[i], SanMax) /\ FLe(sanIn[i], ABSURD_POS))
                   => sanOut[i] = SanMax
            /\ (IsFinite(sanIn[i]) /\ FGt(sanIn[i], ABSURD_POS)) => sanOut[i] = NaN

C5_Witness ==
    /\ sanPc = "sanitize_array"
    /\ sanProduct = "no2"
    /\ \E i \in DOMAIN sanIn : sanIn[i] = Fin(7, 16) /\ sanOut[i] = Fin(5, 16)
    /\ \E i \in DOMAIN sanIn : sanIn[i] = Fin(2, 20) /\ sanOut[i] = NaN

\* C6 as stated: with allow_zero, every finite input below the product's min
\* comes out as exactly min.
C6_AnyFiniteBelowMinClamped ==
    (SanDone /\ SanAllowZero) =>
        \A i \in DOMAIN sanIn :
            (IsFinite(sanIn[i]) /\ FLt(sanIn[i], SanMin)) => sanOut[i] = SanMin

\* C6 amended: with allow_zero, every finite input below the product's min and
\* not below ABSURD_NEG (-1e20) comes out as exactly min; an input below
\* ABSURD_NEG comes out missing.
C6_BelowMinClamped ==
    (SanDone /\ SanAllowZero) =>
        \A i \in DOMAIN sanIn :
            /\ (IsFinite(sanIn[i]) /\ FLt(sanIn[i], SanMin) /\ FGe(sanIn[i], ABSURD_NEG))
                   => sanOut[i] = SanMin
            /\ (IsFinite(sanIn[i]) /\ FLt(sanIn[i], ABSURD_NEG)) => sanOut[i] = NaN

C6_Witness ==
    /\ sanPc = "sanitize_grid"
    /\ sanProduct = "o3tot"
    /\ \E i \in DOMAIN sanIn : sanIn[i] = Fin(-2, 2) /\ sanOut[i] = Zero
    /\ \E i \in DOMAIN sanIn : sanIn[i] = Fin(-2, 20) /\ sanOut[i] = NaN

\* C7: after either sanitizer, every output cell is missing or lies within
\* [min, max] of the product.
C7_OutputInDomain ==
    SanDone =>
        \A i \in DOMAIN sanOut :
            \/ sanOut[i] = NaN
            \/ IsFinite(sanOut[i]) /\ FLe(SanMin, sanOut[i]) /\ FLe(sanOut[i], SanMax)

C7_Witness ==
    /\ sanPc = "sanitize_array"
    /\ sanProduct = "hcho"
    /\ \E i \in DOMAIN sanIn : sanIn[i] = Fin(5, 16) /\ sanOut[i] = Fin(3, 16)
    /\ \E i \in DOMAIN sanIn : sanIn[i] = Fin(-1, 0) /\ sanOut[i] = NaN

\* C8: every non-finite input cell comes out missing for every product, and
\* without allow_zero every input <= 0 (zero included) comes out missing.
C8_NonFiniteAndNonPositiveMissing ==
    SanDone =>
        \A i \in DOMAIN sanIn :
            /\ ~IsFinite(sanIn[i]) => sanOut[i] = NaN
            /\ (~SanAllowZero /\ FLe(sanIn[i], Zero)) => sanOut[i] = NaN

C8_Witness ==
    /\ sanPc = "sanitize_array"
    /\ sanProduct = "no2"
    /\ \E i \in DOMAIN sanIn : sanIn[i] = Zero /\ sanOut[i] = NaN
    /\ \E i \in DOMAIN sanIn : sanIn[i] = PosInf /\ sanOut[i] = NaN

\* the registry's answer for a product id: its entry, or the default
registry_entry(product) ==
    IF product \in KnownProducts
    THEN [allow_zero |-> SPEC[product].allow_zero, min |-> SPEC[product].min,
          max |-> SPEC[product].max]
    ELSE [allow_zero |-> FALSE, min |-> Zero, max |-> Fin(1, 0)]

\* C17 as stated: for every product id, known or not, the lookup of the
\* sanitizer that was called does not fail and yields the registry's entry for
\* the id (the default for an unknown id).
C17_LookupTotal ==
    sanPc # "ready" =>
        /\ sanPc # "KeyError"
        /\ [allow_zero |-> SanAllowZero, min |-> SanMin, max |-> SanMax]
               = registry_entry(sanProduct)

(***************************************************************************)
(* The temporal aggregator (build_tempo_forecast_summaries.py).            *)
(* A grid is a function Cells -> Float whose finite cells are whole        *)
(* numbers (e = 0, exactly representable); a granule is (end_ts, grid).    *)
(* Sums are integers and a mean or an age is the exact quotient, kept as a *)
(* reduced fraction.                                                       *)
(***************************************************************************)

GridRows == {1}

GridCols == {1, 2}

\* grid.shape = (H, W); a cell is <<row, col>>
Cells == GridRows \X GridCols

Hours == 0..23

RECURSIVE Pow10(_)
Pow10(e) == IF e <= 0 THEN 1 ELSE 10 * Pow10(e - 1)

\* the number a finite whole-valued cell holds
Val(v) == v.m * Pow10(v.e)

RECURSIVE GCD(_, _)
GCD(a, b) == IF b = 0 THEN a ELSE GCD(b, a % b)

Abs(n) == IF n < 0 THEN -n ELSE n

\* the quotient n / d (d > 0) as a reduced fraction
Rat(n, d) ==
    LET g == GCD(Abs(n), d)
    IN  [k |-> "fin", num |-> n \div g, den |-> d \div g]

\* NaN as a quotient
RNaN == [k |-> "nan", num |-> 0, den |-> 1]

\* float division n / d: 0.0 / 0 is nan
RDiv(n, d) == IF d = 0 THEN RNaN ELSE Rat(n, d)

\* ---- build_latest ----

\* list.sort(key=end_ts) is stable: an element goes after every element whose
\* key is not greater
RECURSIVE InsertByTs(_, _)
InsertByTs(sorted, g) ==
    IF sorted = <<>> THEN <<g>>
    ELSE IF Head(sorted).end_ts <= g.end_ts
         THEN <<Head(sorted)>> \o InsertByTs(Tail(sorted), g)
         ELSE <<g>> \o sorted

\* mutant: the list is left in the order it was supplied in
sort_by_end_ts_none(stack) == stack

RECURSIVE sort_by_end_ts(_)
sort_by_end_ts(stack) ==
    IF stack = <<>> THEN <<>>
    ELSE InsertByTs(sort_by_end_ts(SubSeq(stack, 1, Len(stack) - 1)), stack[Len(stack)])

\* mutant: every cell is overwritten, a missing cell of a later granule included
RECURSIVE latest_loop_nomask(_, _, _, _)
latest_loop_nomask(stack, i, lat, lts) ==
    IF i > Len(stack) THEN [latest |-> lat, latest_ts |-> lts]
    ELSE latest_loop_nomask(stack, i + 1, stack[i].grid,
                            [c \in Cells |-> stack[i].end_ts])

\* the else branch of the loop of build_latest, for granules i..Len(stack)
RECURSIVE latest_loop(_, _, _, _)
latest_loop(stack, i, lat, lts) ==
    IF i > Len(stack) THEN [latest |-> lat, latest_ts |-> lts]
    ELSE LET end_ts == stack[i].end_ts
             grid == stack[i].grid
             mask_new == {c \in Cells : IsFinite(grid[c])}
         IN  latest_loop(stack, i + 1,
                         [c \in Cells |-> IF c \in mask_new THEN grid[c] ELSE lat[c]],
                         [c \in Cells |-> IF c \in mask_new THEN end_ts ELSE lts[c]])

\* mutant: the age is not blanked where the latest value is not finite
latest_result_allages(sorted, r, now) ==
    [sorted |-> sorted,
     latest |-> r.latest,
     latest_ts |-> r.latest_ts,
     age_h |-> [c \in Cells |-> Rat(now - r.latest_ts[c], 3600)],
     newest_end_ts |-> sorted[Len(sorted)].end_ts]

\* the tail of build_latest: ages from the per-cell timestamps, nan where the
\* latest value is not finite; the newest end timestamp is the last of the list
latest_result(sorted, r, now) ==
    [sorted |-> sorted,
     latest |-> r.latest,
     latest_ts |-> r.latest_ts,
     age_h |-> [c \in Cells |->
                   IF IsFinite(r.latest[c]) THEN Rat(now - r.latest_ts[c], 3600)
                   ELSE RNaN],
     newest_end_ts |-> sorted[Len(sorted)].end_ts]

\* the loop of build_latest over the sorted list; the first iteration sets
\* latest = grid.copy() and latest_ts = full(end_ts)
latest_of_sorted(sorted, now) ==
    latest_result(sorted,
                  latest_loop(sorted, 2, sorted[1].grid,
                              [c \in Cells |-> sorted[1].end_ts]),
                  now)

\* build_latest(values_stack) for a non-empty list, with time.time() = now;
\* "sorted" is the list object after the in-place sort
build_latest(stack, now) == latest_of_sorted(sort_by_end_ts(stack), now)

\* ---- build_hod ----

\* mutant: the quotient is truncated towards zero instead of floored
compute_local_hour_trunc(utc_end_ts, lon_deg) ==
    LET offset_sec == (lon_deg * 86400) \div 360
        local_ts == utc_end_ts + offset_sec
        q == IF local_ts < 0 THEN -((-local_ts) \div 3600) ELSE local_ts \div 3600
    IN  q % 24

\* mutant: the hour is not reduced modulo 24
compute_local_hour_nomod(utc_end_ts, lon_deg) ==
    LET offset_sec == (lon_deg * 86400) \div 360
        local_ts == utc_end_ts + offset_sec
    IN  local_ts \div 3600

\* compute_local_hour for one cell; (lon / 360) * 86400 is 240 * lon seconds
compute_local_hour(utc_end_ts, lon_deg) ==
    LET offset_sec == (lon_deg * 86400) \div 360
        local_ts == utc_end_ts + offset_sec
    IN  (local_ts \div 3600) % 24

\* the significand of a float, scaled down from the 53 bits of float64: a
\* whole number below 2^FloatBits is a float, above it every second, fourth,
\* ... one is
FloatBits == 4

RECURSIVE Pow2(_)
Pow2(n) == IF n <= 0 THEN 1 ELSE 2 * Pow2(n - 1)

\* the distance between the floats around the whole number s >= 0
RECURSIVE Ulp(_)
Ulp(s) == IF s < Pow2(FloatBits) THEN 1 ELSE 2 * Ulp(s \div 2)

\* the float nearest to the whole number s >= 0, a tie going to the even
\* significand
round_to_float(s) ==
    LET u == Ulp(s)
        q == s \div u
        r == s % u
    IN  IF 2 * r < u THEN q * u
        ELSE IF 2 * r > u THEN (q + 1) * u
        ELSE IF q % 2 = 0 THEN q * u ELSE (q + 1) * u

\* a + b for two floats that are whole numbers >= 0: the exact sum, rounded
fadd(a, b) == round_to_float(a + b)

\* the accumulators before the first granule
hod_zero ==
    [hod_sum |-> [h \in Hours |-> [c \in Cells |-> 0]],
     hod_cnt |-> [h \in Hours |-> [c \in Cells |-> 0]],
     hour_counts |-> [h \in Hours |-> 0]]

\* mutant: the global counter of an hour grows by the number of contributing cells
hod_add_percell(acc, grid, local_hour) ==
    [hod_sum |-> [h \in Hours |-> [c \in Cells |->
                    IF IsFinite(grid[c]) /\ local_hour[c] = h
                    THEN fadd(acc.hod_sum[h][c], Val(grid[c])) ELSE acc.hod_sum[h][c]]],
     hod_cnt |-> [h \in Hours |-> [c \in Cells |->
                    IF IsFinite(grid[c]) /\ local_hour[c] = h
                    THEN acc.hod_cnt[h][c] + 1 ELSE acc.hod_cnt[h][c]]],
     hour_counts |-> [h \in Hours |->
                    acc.hour_counts[h]
                    + Cardinality({c \in Cells : IsFinite(grid[c]) /\ local_hour[c] = h})]]

\* mutant: the sum of a cell is overwritten by the granule's value
hod_add_assign(acc, grid, local_hour) ==
    [hod_sum |-> [h \in Hours |-> [c \in Cells |->
                    IF IsFinite(grid[c]) /\ local_hour[c] = h
                    THEN Val(grid[c]) ELSE acc.hod_sum[h][c]]],
     hod_cnt |-> [h \in Hours |-> [c \in Cells |->
                    IF IsFinite(grid[c]) /\ local_hour[c] = h
                    THEN acc.hod_cnt[h][c] + 1 ELSE acc.hod_cnt[h][c]]],
     hour_counts |-> [h \in Hours |->
                    IF \E c \in Cells : IsFinite(grid[c]) /\ local_hour[c] = h
                    THEN acc.hour_counts[h] + 1 ELSE acc.hour_counts[h]]]

\* the loop over h of build_hod for one granule: with m = valid_mask &
\* (local_hour == h), hod_sum[h][m] += grid[m], hod_cnt[h][m] += 1, and
\* hour_counts[h] += 1 if np.any(m)
hod_add(acc, grid, local_hour) ==
    [hod_sum |-> [h \in Hours |-> [c \in Cells |->
                    IF IsFinite(grid[c]) /\ local_hour[c] = h
                    THEN fadd(acc.hod_sum[h][c], Val(grid[c])) ELSE acc.hod_sum[h][c]]],
     hod_cnt |-> [h \in Hours |-> [c \in Cells |->
                    IF IsFinite(grid[c]) /\ local_hour[c] = h
                    THEN acc.hod_cnt[h][c] + 1 ELSE acc.hod_cnt[h][c]]],
     hour_counts |-> [h \in Hours |->
                    IF \E c \in Cells : IsFinite(grid[c]) /\ local_hour[c] = h
                    THEN acc.hour_counts[h] + 1 ELSE acc.hour_counts[h]]]

\* one iteration of the granule loop of build_hod
hod_accumulate(acc, g, lon) ==
    hod_add(acc, g.grid, [c \in Cells |-> compute_local_hour(g.end_ts, lon[c])])

\* the granule loop of build_hod over granules i..Len(stack)
RECURSIVE hod_loop(_, _, _, _)
hod_loop(stack, i, acc, lon) ==
    IF i > Len(stack) THEN acc
    ELSE hod_loop(stack, i + 1, hod_accumulate(acc, stack[i], lon), lon)

\* mutant: the threshold is compared with > instead of >=
hod_mean_strict(sum, cnt, mph) == IF cnt > mph THEN RDiv(sum, cnt) ELSE RNaN

\* one cell of one hour of the output: out[mask] = hod_sum / hod_cnt where
\* hod_cnt >= min_per_hour, nan elsewhere
hod_mean(sum, cnt, mph) == IF cnt >= mph THEN RDiv(sum, cnt) ELSE RNaN

\* the output loop of build_hod over the 24 hours
hod_result(acc, mph) ==
    [hod_sum |-> acc.hod_sum,
     hod_cnt |-> acc.hod_cnt,
     hour_counts |-> acc.hour_counts,
     hod_grids |-> [h \in Hours |-> [c \in Cells |->
                      hod_mean(acc.hod_sum[h][c], acc.hod_cnt[h][c], mph)]]]

\* build_hod(values_stack, lon2d, min_per_hour) for a non-empty list
build_hod(stack, lon, mph) == hod_result(hod_loop(stack, 1, hod_zero, lon), mph)

\* ---------- SpecAgg: the two builders on every collection of a bounded set ----------

MaxGranules == 2

AggValues == {NaN, Fin(3, 0), Fin(5, 0)}

\* 00:30 and 23:30 UTC of day 0
AggTs == {1800, 84600}

Granules == [end_ts : AggTs, grid : [Cells -> AggValues]]

Stacks == UNION {[1..n -> Granules] : n \in 0..MaxGranules}

\* 1-D longitude axes; main tiles the axis over the rows.  On <<0, 5>> both
\* columns are in one local hour; on <<-10, 10>> the local time of the first
\* column at 00:30 is negative (hour 23) and that of the second at 23:30 is
\* past midnight (hour 0)
LonAxes == {<<0, 5>>, <<-10, 10>>}

tile(lon) == [c \in Cells |-> lon[c[2]]]

MinPerHourSet == {1, 2}

\* time.time() at the call: day 1, 00:00 and 01:00 UTC
NowSet == {86400, 90000}

InitAgg ==
    /\ PipeIdle
    /\ SanIdle
    /\ BlkIdle
    /\ RixIdle
    /\ LonIdle
    /\ stack_in \in Stacks
    /\ values_stack = stack_in
    /\ latestPc = "ready"
    /\ latest = <<>>
    /\ latest_ts = <<>>
    /\ age_h = <<>>
    /\ newest_end_ts = 0
    /\ now_ts = 0
    /\ hodPc = "ready"
    /\ lon2d = <<>>
    /\ min_per_hour = 0
    /\ hod_sum = <<>>
    /\ hod_cnt = <<>>
    /\ hour_counts = <<>>
    /\ hod_grids = <<>>

\* mutant: an empty list yields a return instead of an error
return_no_granule_data == "returned"

\* if not values_stack: raise ValueError("No granule data provided.")
raise_no_granule_data == "ValueError"

\* build_latest(values_stack): raises on an empty list, else sorts the list in
\* place and returns (latest, age_h, newest_end_ts)
BuildLatest ==
    /\ latestPc = "ready"
    /\ IF values_stack = <<>>
       THEN /\ latestPc' = raise_no_granule_data
            /\ UNCHANGED <<values_stack, latest, latest_ts, age_h, newest_end_ts, now_ts>>
       ELSE \E now \in NowSet :
              \E r \in {build_latest(values_stack, now)} :
                  /\ values_stack' = r.sorted
                  /\ latest' = r.latest
                  /\ latest_ts' = r.latest_ts
                  /\ age_h' = r.age_h
                  /\ newest_end_ts' = r.newest_end_ts
                  /\ now_ts' = now
                  /\ latestPc' = "returned"
    /\ UNCHANGED <<stack_in, hodVars, sanVars, blkVars, rixVars, lonVars, pipeVars>>

\* build_hod(values_stack, lon2d, min_per_hour): raises on an empty list, else
\* returns (hod_grids, hour_counts)
BuildHod ==
    /\ hodPc = "ready"
    /\ \E lon \in LonAxes, mph \in MinPerHourSet :
         /\ lon2d' = tile(lon)
         /\ min_per_hour' = mph
         /\ IF values_stack = <<>>
            THEN /\ hodPc' = raise_no_granule_data
                 /\ UNCHANGED <<hod_sum, hod_cnt, hour_counts, hod_grids>>
            ELSE \E r \in {build_hod(values_stack, tile(lon), mph)} :
                     /\ hod_sum' = r.hod_sum
                     /\ hod_cnt' = r.hod_cnt
                     /\ hour_counts' = r.hour_counts
                     /\ hod_grids' = r.hod_grids
                     /\ hodPc' = "returned"
    /\ UNCHANGED <<stack_in, values_stack, latestVars, sanVars, blkVars, rixVars, lonVars, pipeVars>>

NextAgg == BuildLatest \/ BuildHod

MaxShort == 1

\* the collections of at most MaxShort granules, the empty one among them
InitAggShort == InitAgg /\ Len(stack_in) <= MaxShort

\* both builders on one short collection, in either order
SpecAgg == InitAggShort /\ [][NextAgg]_vars

NextLatest == BuildLatest

\* build_latest alone
SpecLatest == InitAgg /\ [][NextLatest]_vars

NextHod == BuildHod

\* build_hod alone
SpecHod == InitAgg /\ [][NextHod]_vars

\* ---------- properties of the aggregator (SpecAgg) ----------

\* the granules of the supplied collection in which cell c is finite
FiniteIn(c) == {i \in 1..Len(stack_in) : IsFinite(stack_in[i].grid[c])}

\* the granules of the supplied collection that put cell c into hour h
Contrib(c, h) ==
    {i \in FiniteIn(c) : compute_local_hour(stack_in[i].end_ts, lon2d[c]) = h}

RECURSIVE SumCell(_, _)
SumCell(S, c) ==
    IF S = {} THEN 0
    ELSE LET i == CHOOSE x \in S : TRUE
         IN  Val(stack_in[i].grid[c]) + SumCell(S \ {i}, c)

RECURSIVE SumUpTo(_, _)
SumUpTo(f, h) == IF h < 0 THEN 0 ELSE f[h] + SumUpTo(f, h - 1)

\* C1: after build_latest, every cell that is finite in some granule holds the
\* value, and the end timestamp, of a granule with the greatest end timestamp
\* among the granules in which that cell is finite (so it is finite: a later
\* missing cell never replaces it), each cell on its own.
C1_LatestFiniteWins ==
    latestPc = "returned" =>
        \A c \in Cells :
            FiniteIn(c) # {} =>
                \E i \in FiniteIn(c) :
                    /\ \A j \in FiniteIn(c) : stack_in[j].end_ts <= stack_in[i].end_ts
                    /\ latest[c] = stack_in[i].grid[c]
                    /\ latest_ts[c] = stack_in[i].end_ts

\* t1 < t2; A finite then missing, B missing then finite; A keeps t1's value
C1_Witness ==
    /\ latestPc = "returned"
    /\ Len(stack_in) = 2
    /\ stack_in[1].end_ts < stack_in[2].end_ts
    /\ stack_in[1].grid = [c \in Cells |-> IF c = <<1, 1>> THEN Fin(5, 0) ELSE NaN]
    /\ stack_in[2].grid = [c \in Cells |-> IF c = <<1, 1>> THEN NaN ELSE Fin(3, 0)]
    /\ latest[<<1, 1>>] = Fin(5, 0) /\ latest_ts[<<1, 1>>] = stack_in[1].end_ts
    /\ latest[<<1, 2>>] = Fin(3, 0) /\ latest_ts[<<1, 2>>] = stack_in[2].end_ts

\* the granules that supply the output value of cell c: finite in c, with the
\* greatest end timestamp among the granules finite in c
Suppliers(c) ==
    {i \in FiniteIn(c) : \A j \in FiniteIn(c) : stack_in[j].end_ts <= stack_in[i].end_ts}

\* C13: after build_latest, a cell that is finite in some granule has the age
\* (reference instant - t) / 3600 hours, t being the end timestamp of the
\* granule that supplied its value; a cell that is finite in no granule has a
\* missing value and a missing age.
C13_AgeFromSupplier ==
    latestPc = "returned" =>
        \A c \in Cells :
            IF FiniteIn(c) # {}
            THEN \E i \in Suppliers(c) :
                     /\ latest[c] = stack_in[i].grid[c]
                     /\ age_h[c] = Rat(now_ts - stack_in[i].end_ts, 3600)
            ELSE /\ ~IsFinite(latest[c])
                 /\ age_h[c] = RNaN

\* a collection listed newest first: a cell finite in both granules is half an
\* hour old (the granule of 23:30 seen at 24:00), a cell finite in neither has
\* no age
C13_Witness ==
    /\ latestPc = "returned"
    /\ now_ts = 86400
    /\ Len(stack_in) = 2
    /\ stack_in[1].end_ts > stack_in[2].end_ts
    /\ FiniteIn(<<1, 1>>) = {1, 2}
    /\ age_h[<<1, 1>>] = [k |-> "fin", num |-> 1, den |-> 2]
    /\ FiniteIn(<<1, 2>>) = {}
    /\ age_h[<<1, 2>>] = RNaN

\* C16: on an empty collection neither builder returns: each ends in the error
\* and leaves no snapshot, no ages, no climatology and no counters.
C16_EmptyInputFails ==
    stack_in = <<>> =>
        /\ latestPc \in {"ready", "ValueError"}
        /\ hodPc \in {"ready", "ValueError"}
        /\ latest = <<>> /\ age_h = <<>> /\ latest_ts = <<>>
        /\ hod_grids = <<>> /\ hour_counts = <<>>

\* both builders were called on the empty collection and both failed
C16_Witness ==
    /\ stack_in = <<>>
    /\ latestPc = "ValueError"
    /\ hodPc = "ValueError"

\* C2: after build_hod, for every hour and cell the output is the sum of the
\* finite values the cell contributed to that hour divided by their number when
\* that number is at least min_per_hour, and missing otherwise.
C2_HodMeanGated ==
    hodPc = "returned" =>
        \A h \in Hours, c \in Cells :
            LET n == Cardinality(Contrib(c, h))
            IN  hod_grids[h][c] =
                    IF n >= min_per_hour THEN Rat(SumCell(Contrib(c, h), c), n) ELSE RNaN

\* min_per_hour = 2: a cell with 3.0 and 5.0 in one hour gets 4.0, a cell with
\* one contribution in that hour is missing
C2_Witness ==
    /\ hodPc = "returned"
    /\ min_per_hour = 2
    /\ \E h \in Hours :
         /\ \E c \in Cells :
              /\ Cardinality(Contrib(c, h)) = 2
              /\ {stack_in[i].grid[c] : i \in Contrib(c, h)} = {Fin(3, 0), Fin(5, 0)}
              /\ hod_grids[h][c] = [k |-> "fin", num |-> 4, den |-> 1]
         /\ \E c \in Cells :
              /\ Cardinality(Contrib(c, h)) = 1
              /\ hod_grids[h][c] = RNaN

\* the (granule, cell) pairs with a finite value
FinitePairs == {p \in (1..Len(stack_in)) \X Cells : IsFinite(stack_in[p[1]].grid[p[2]])}

\* the (granule, hour) pairs such that a finite cell of the granule is in the hour
GranuleHours ==
    {p \in (1..Len(stack_in)) \X Hours : \E c \in Cells : p[1] \in Contrib(c, p[2])}

\* C9 as stated: the 24 global counters sum to the number of finite
\* (granule, cell) pairs of the run.
C9_CountersSumToFinitePairs ==
    hodPc = "returned" => SumUpTo(hour_counts, 23) = Cardinality(FinitePairs)

\* C9 amended: the 24 global counters sum to the number of (granule, hour)
\* pairs such that at least one finite cell of the granule falls in the hour,
\* which is at most the number of finite (granule, cell) pairs.
C9_CountersSumToGranuleHours ==
    hodPc = "returned" =>
        /\ SumUpTo(hour_counts, 23) = Cardinality(GranuleHours)
        /\ SumUpTo(hour_counts, 23) <= Cardinality(FinitePairs)

\* a granule with two finite cells in one hour raises the counters by one
C9_Witness ==
    /\ hodPc = "returned"
    /\ Len(stack_in) = 1
    /\ Cardinality(FinitePairs) = 2
    /\ SumUpTo(hour_counts, 23) = 1

\* the granules of the supplied collection with a finite cell in hour h
GranulesIn(h) == {i \in 1..Len(stack_in) : \E c \in Cells : i \in Contrib(c, h)}

\* C24: after build_hod, the counter of every hour is the number of granules
\* in which at least one finite cell has that local hour: a granule adds 1 to
\* the counter of an hour to which any number of its cells contribute, and 0
\* to the counter of an hour to which none does.
C24_CounterCountsGranules ==
    hodPc = "returned" =>
        \A h \in Hours : hour_counts[h] = Cardinality(GranulesIn(h))

\* two granules and an hour: both cells of the first are finite in the hour,
\* no cell of the second is finite, and the counter of the hour is 1
C24_Witness ==
    /\ hodPc = "returned"
    /\ Len(stack_in) = 2
    /\ \E h \in Hours :
         /\ \A c \in Cells : 1 \in Contrib(c, h)
         /\ \A c \in Cells : ~IsFinite(stack_in[2].grid[c])
         /\ hour_counts[h] = 1
         /\ \A k \in Hours \ {h} : hour_counts[k] = 0

\* the number of contributions of cell c over the 24 buckets
BucketTotal(c) == SumUpTo([h \in Hours |-> hod_cnt[h][c]], 23)

\* C29: after build_hod, the contribution counts of a cell over the 24 hour
\* buckets sum to the number of granules in which the cell is finite; every
\* bucket of the cell holds the count and the sum of the granules that are
\* finite in the cell and put it in that hour, so a missing cell adds to no
\* bucket.
C29_BucketPartition ==
    hodPc = "returned" =>
        \A c \in Cells :
            /\ BucketTotal(c) = Cardinality(FiniteIn(c))
            /\ \A h \in Hours :
                 /\ hod_cnt[h][c] = Cardinality(Contrib(c, h))
                 /\ hod_sum[h][c] = SumCell(Contrib(c, h), c)

\* a cell finite in two granules at 00:30 and 23:30 on the axis <<-10, 10>>:
\* its two contributions are in two different buckets, one of them past
\* midnight or before it; the other cell, missing in a granule, has less
C29_Witness ==
    /\ hodPc = "returned"
    /\ Len(stack_in) = 2
    /\ stack_in[1].end_ts # stack_in[2].end_ts
    /\ lon2d[<<1, 1>>] = -10
    /\ FiniteIn(<<1, 1>>) = {1, 2}
    /\ hod_cnt[23][<<1, 1>>] = 1 /\ hod_cnt[22][<<1, 1>>] = 1
    /\ BucketTotal(<<1, 1>>) = 2
    /\ FiniteIn(<<1, 2>>) = {1}
    /\ BucketTotal(<<1, 2>>) = 1

\* C28: a call of build_latest or build_hod leaves the collection it was given
\* as it was: the same granules, with the same grids and end timestamps, in
\* the same order.
C28_InputsUnchanged == values_stack = stack_in

(***************************************************************************)
(* block_reduce_mean (tempo_to_json.py).  A 2-D array is a sequence of     *)
(* rows; the cells are whole numbers or NaN and a mean is an exact         *)
(* quotient.                                                               *)
(***************************************************************************)

\* a + b for two quotients
RAdd(a, b) == Rat(a.num * b.den + b.num * a.den, a.den * b.den)

\* a / n for a quotient and a count n > 0
RDivInt(a, n) == Rat(a.num, a.den * n)

\* sum and number of the finite elements of xs[1..n], a sequence of cells
RECURSIVE FinSum(_, _)
FinSum(xs, n) ==
    IF n = 0 THEN 0
    ELSE FinSum(xs, n - 1) + (IF IsFinite(xs[n]) THEN Val(xs[n]) ELSE 0)

RECURSIVE FinCount(_, _)
FinCount(xs, n) ==
    IF n = 0 THEN 0
    ELSE FinCount(xs, n - 1) + (IF IsFinite(xs[n]) THEN 1 ELSE 0)

\* mutant: a slice with no finite cell has the mean 0
nanmean_zero(xs) ==
    IF FinCount(xs, Len(xs)) = 0 THEN Rat(0, 1)
    ELSE Rat(FinSum(xs, Len(xs)), FinCount(xs, Len(xs)))

\* np.nanmean over a slice of cells: NaN when the slice has no finite cell
nanmean(xs) == RDiv(FinSum(xs, Len(xs)), FinCount(xs, Len(xs)))

\* sum and number of the non-NaN elements of qs[1..n], a sequence of quotients
RECURSIVE RatSum(_, _)
RatSum(qs, n) ==
    IF n = 0 THEN Rat(0, 1)
    ELSE IF qs[n].k = "fin" THEN RAdd(RatSum(qs, n - 1), qs[n]) ELSE RatSum(qs, n - 1)

RECURSIVE RatCount(_, _)
RatCount(qs, n) ==
    IF n = 0 THEN 0
    ELSE RatCount(qs, n - 1) + (IF qs[n].k = "fin" THEN 1 ELSE 0)

\* np.nanmean over a slice of means
nanmean_of_means(qs) ==
    IF RatCount(qs, Len(qs)) = 0 THEN RNaN
    ELSE RDivInt(RatSum(qs, Len(qs)), RatCount(qs, Len(qs)))

\* mutant: the remainder is dropped at the start of the rows and columns,
\* arr[-H:, -W:], instead of at the end
block_cell_tail(arr, by, bx, i, a, j, b) ==
    arr[Len(arr) - (Len(arr) \div by) * by + (i - 1) * by + a]
       [Len(arr[1]) - (Len(arr[1]) \div bx) * bx + (j - 1) * bx + b]

\* d = arr[:H, :W].reshape(H // by_y, by_y, W // by_x, by_x): d[i][a][j][b]
block_cell(arr, by, bx, i, a, j, b) == arr[(i - 1) * by + a][(j - 1) * bx + b]

\* mutant: one nanmean over all the cells of the block
block_mean_flat(arr, by, bx, i, j) ==
    LET n == by * bx
        cells == [t \in 1..n |->
                    block_cell(arr, by, bx, i, ((t - 1) \div bx) + 1, j, ((t - 1) % bx) + 1)]
    IN  nanmean(cells)

\* one coarse cell: np.nanmean(np.nanmean(d, axis=3), axis=1)[i][j]
block_mean(arr, by, bx, i, j) ==
    nanmean_of_means([a \in 1..by |->
                        nanmean([b \in 1..bx |-> block_cell(arr, by, bx, i, a, j, b)])])

\* the trimmed extents H and W of block_reduce_mean
trimmed(n, b) == (n \div b) * b

\* block_reduce_mean(arr, by_y, by_x) when H > 0 and W > 0
block_reduce_mean(arr, by, bx) ==
    [i \in 1..(trimmed(Len(arr), by) \div by) |->
        [j \in 1..(trimmed(Len(arr[1]), bx) \div bx) |-> block_mean(arr, by, bx, i, j)]]

\* ---------- SpecBlock: block_reduce_mean on every grid of a bounded set ----------

MaxNative == 2

MaxBlock == 2

BlkValues == {NaN, Fin(1, 0), Fin(3, 0)}

BlkGrids == UNION {[1..h -> [1..w -> BlkValues]] : h \in 1..MaxNative, w \in 1..MaxNative}

InitBlock ==
    /\ PipeIdle
    /\ SanIdle
    /\ AggIdle
    /\ RixIdle
    /\ LonIdle
    /\ blkPc = "ready"
    /\ blk_arr \in BlkGrids
    /\ by_y \in 1..MaxBlock
    /\ by_x \in 1..MaxBlock
    /\ blk_out = <<>>

\* block_reduce_mean(arr, by_y, by_x): raises when the trimmed array is empty
BlockReduceMean ==
    /\ blkPc = "ready"
    /\ IF trimmed(Len(blk_arr), by_y) = 0 \/ trimmed(Len(blk_arr[1]), by_x) = 0
       THEN /\ blkPc' = "ValueError"
            /\ UNCHANGED blk_out
       ELSE /\ blk_out' = block_reduce_mean(blk_arr, by_y, by_x)
            /\ blkPc' = "returned"
    /\ UNCHANGED <<blk_arr, by_y, by_x, sanVars, aggVars, rixVars, lonVars, pipeVars>>

NextBlock == BlockReduceMean

SpecBlock == InitBlock /\ [][NextBlock]_vars

\* ---------- properties of block_reduce_mean (SpecBlock) ----------

\* the native cells <<row, col>> of coarse cell (i, j)
BlockMembers(i, j) ==
    {<<(i - 1) * by_y + a, (j - 1) * by_x + b>> : a \in 1..by_y, b \in 1..by_x}

FiniteMembers(i, j) == {rc \in BlockMembers(i, j) : IsFinite(blk_arr[rc[1]][rc[2]])}

RECURSIVE SumMembers(_)
SumMembers(S) ==
    IF S = {} THEN 0
    ELSE LET rc == CHOOSE x \in S : TRUE
         IN  Val(blk_arr[rc[1]][rc[2]]) + SumMembers(S \ {rc})

\* C3 as stated: a coarse cell is missing exactly when its block has no finite
\* cell, and otherwise is the sum of the finite cells of the block divided by
\* their number.
C3_BlockMeanOfFiniteMembers ==
    blkPc = "returned" =>
        \A i \in DOMAIN blk_out : \A j \in DOMAIN blk_out[i] :
            blk_out[i][j] =
                IF FiniteMembers(i, j) = {} THEN RNaN
                ELSE Rat(SumMembers(FiniteMembers(i, j)), Cardinality(FiniteMembers(i, j)))

\* a cell as a quotient: v / 1, or NaN
AsRat(v) == IF IsFinite(v) THEN Rat(Val(v), 1) ELSE RNaN

\* C19: with block factors (1, 1) the result has the shape of the input and
\* every cell equals the input cell, a missing cell staying missing.
C19_UnitBlockIdentity ==
    (blkPc = "returned" /\ by_y = 1 /\ by_x = 1) =>
        /\ DOMAIN blk_out = DOMAIN blk_arr
        /\ \A i \in DOMAIN blk_arr :
              /\ DOMAIN blk_out[i] = DOMAIN blk_arr[i]
              /\ \A j \in DOMAIN blk_arr[i] : blk_out[i][j] = AsRat(blk_arr[i][j])

\* a 2 x 2 grid with a missing cell and two different finite cells, reduced
\* with factors (1, 1)
C19_Witness ==
    /\ blkPc = "returned"
    /\ by_y = 1 /\ by_x = 1
    /\ blk_arr = <<<<NaN, Fin(1, 0)>>, <<Fin(3, 0), Fin(1, 0)>>>>
    /\ blk_out[1][1] = RNaN
    /\ blk_out[2][1] = [k |-> "fin", num |-> 3, den |-> 1]

(***************************************************************************)
(* reindex_to (tempo_to_json.py).  Axes hold whole degrees; indices count  *)
(* from 0 as in the code, sequences from 1.                                *)
(***************************************************************************)

\* mutant: side "right", the first index i with v < a[i]
searchsorted_right(a, v) == Cardinality({k \in 1..Len(a) : a[k] <= v})

\* np.searchsorted(a, v) (side "left") for an ascending a: the first index i
\* with v <= a[i], len(a) when there is none
searchsorted(a, v) == Cardinality({k \in 1..Len(a) : a[k] < v})

\* np.clip(i, lo, hi)
clip(i, lo, hi) == IF i < lo THEN lo ELSE IF i > hi THEN hi ELSE i

\* the index reindex_to uses for destination point v on source axis a
source_index(a, v) == clip(searchsorted(a, v), 0, Len(a) - 1)

\* reindex_to(lat_src, lon_src, src, lat_dst, lon_dst)
reindex_to(lats, lons, grid, latd, lond) ==
    [p \in DOMAIN latd |->
        [q \in DOMAIN lond |->
            grid[source_index(lats, latd[p]) + 1][source_index(lons, lond[q]) + 1]]]

\* ---------- SpecReindex: reindex_to on every pair of axes of a bounded set ----------

MaxSrc == 3

MaxDst == 2

\* a regular source axis of n points 0, 10, 20, ...
SrcAxis(n) == [k \in 1..n |-> 10 * (k - 1)]

\* destination points before, on, between and beyond the source points
DstPoints == {-5, 0, 4, 10, 35}

DstAxes == UNION {[1..n -> DstPoints] : n \in 1..MaxDst}

\* a source grid whose cells are pairwise different: cell (i, j) holds i * 10^j
LabelledGrid(h, w) == [i \in 1..h |-> [j \in 1..w |-> Fin(i, j)]]

InitReindex ==
    /\ PipeIdle
    /\ SanIdle
    /\ AggIdle
    /\ BlkIdle
    /\ LonIdle
    /\ rixPc = "ready"
    /\ \E h \in 1..MaxSrc, w \in 1..MaxSrc :
         /\ lat_src = SrcAxis(h)
         /\ lon_src = SrcAxis(w)
         /\ src = LabelledGrid(h, w)
    /\ lat_dst \in DstAxes
    /\ lon_dst \in DstAxes
    /\ iy = <<>>
    /\ ix = <<>>
    /\ rix_out = <<>>

\* reindex_to(lat_src, lon_src, src, lat_dst, lon_dst)
ReindexTo ==
    /\ rixPc = "ready"
    /\ iy' = [p \in DOMAIN lat_dst |-> source_index(lat_src, lat_dst[p])]
    /\ ix' = [q \in DOMAIN lon_dst |-> source_index(lon_src, lon_dst[q])]
    /\ rix_out' = reindex_to(lat_src, lon_src, src, lat_dst, lon_dst)
    /\ rixPc' = "returned"
    /\ UNCHANGED <<lat_src, lon_src, src, lat_dst, lon_dst, sanVars, aggVars, blkVars, lonVars, pipeVars>>

NextReindex == ReindexTo

SpecReindex == InitReindex /\ [][NextReindex]_vars

\* ---------- properties of reindex_to (SpecReindex) ----------

\* index i (from 0) is in range for axis a and no point of a is strictly closer to v
NearestOn(a, i, v) ==
    /\ i \in 0..(Len(a) - 1)
    /\ \A k \in 1..Len(a) : Abs(a[i + 1] - v) <= Abs(a[k] - v)

\* C4 as stated: for every destination point the source index chosen on each
\* axis is in range and is the index of a nearest source point, and the cell
\* returned is the source cell at those indices.
C4_ReindexNearest ==
    rixPc = "returned" =>
        /\ \A p \in DOMAIN lat_dst : NearestOn(lat_src, iy[p], lat_dst[p])
        /\ \A q \in DOMAIN lon_dst : NearestOn(lon_src, ix[q], lon_dst[q])
        /\ \A p \in DOMAIN lat_dst, q \in DOMAIN lon_dst :
              rix_out[p][q] = src[iy[p] + 1][ix[q] + 1]

\* C18: for source axes that are strictly ascending, a destination cell
\* whose latitude is a source latitude and whose longitude is a source
\* longitude holds exactly the source grid's value at that source point.
C18_CoincidentPointExact ==
    rixPc = "returned" =>
        \A p \in DOMAIN lat_dst, q \in DOMAIN lon_dst :
            \A a \in DOMAIN lat_src, b \in DOMAIN lon_src :
                (lat_dst[p] = lat_src[a] /\ lon_dst[q] = lon_src[b])
                    => rix_out[p][q] = src[a][b]

\* a destination point on the interior source point (10, 10) of a 3 x 3 source
\* grid, next to a destination longitude that is on no source point
C18_Witness ==
    /\ rixPc = "returned"
    /\ Len(lat_src) = 3 /\ Len(lon_src) = 3
    /\ lat_dst = <<10>>
    /\ lon_dst = <<10, 4>>
    /\ rix_out[1][1] = src[2][2]

(***************************************************************************)
(* normalize_lon_and_align (tempo_to_json.py).  Longitudes are whole       *)
(* degrees.                                                                *)
(***************************************************************************)

\* ((lon + 180.0) % 360.0) - 180.0
lon_norm(l) == ((l + 180) % 360) - 180

\* the permutations of 1..n
Perms(n) == {f \in [1..n -> 1..n] : \A a, b \in 1..n : f[a] = f[b] => a = b}

\* the results np.argsort can give for xs: the default sort is not stable, so
\* equal elements come in any order
argsorts(xs) ==
    {f \in Perms(Len(xs)) : \A k \in 1..(Len(xs) - 1) : xs[f[k]] <= xs[f[k + 1]]}

\* mutant: the columns are rotated so that the first sorted column comes
\* first, instead of permuted
take_columns_rolled(arr, ord) ==
    [r \in DOMAIN arr |->
        [c \in DOMAIN ord |-> arr[r][((c + ord[1] - 2) % Len(ord)) + 1]]]

\* arr2d[:, order]
take_columns(arr, ord) == [r \in DOMAIN arr |-> [c \in DOMAIN ord |-> arr[r][ord[c]]]]

\* ---------- SpecLon: normalize_lon_and_align on every axis of a bounded set ----------

\* the outcomes of normalize_lon_and_align(lon, arr): the error when arr has
\* not one column per longitude, else one result for every order np.argsort
\* may give to equal normalized longitudes
normalize_lon_and_align(lon, arr) ==
    IF Len(arr[1]) # Len(lon)
    THEN {[raised |-> TRUE, order |-> <<>>, lon_sorted |-> <<>>, arr_sorted |-> <<>>]}
    ELSE {[raised |-> FALSE,
           order |-> ord,
           lon_sorted |-> [k \in DOMAIN lon |-> lon_norm(lon[ord[k]])],
           arr_sorted |-> take_columns(arr, ord)] :
             ord \in argsorts([k \in DOMAIN lon |-> lon_norm(lon[k])])}

MaxLon == 3

LonRows == {1, 2}

\* degrees inside and outside [-180, 180), with pairs that coincide after wraparound
LonPoints == {-190, -180, 0, 170, 180, 190}

LonInputs == UNION {[1..n -> LonPoints] : n \in 1..MaxLon}

InitLon ==
    /\ PipeIdle
    /\ SanIdle
    /\ AggIdle
    /\ BlkIdle
    /\ RixIdle
    /\ lonPc = "ready"
    /\ lon1d \in LonInputs
    /\ \E w \in 1..MaxLon : arr2d = [r \in LonRows |-> [c \in 1..w |-> Fin(r, c)]]
    /\ order = <<>>
    /\ lon_sorted = <<>>
    /\ arr_sorted = <<>>
    /\ lon_sorted2 = <<>>
    /\ arr_sorted2 = <<>>

\* normalize_lon_and_align(lon1d, arr2d): raises when arr2d has not one column
\* per longitude
NormalizeLonAndAlign ==
    /\ lonPc = "ready"
    /\ \E r \in normalize_lon_and_align(lon1d, arr2d) :
         IF r.raised
         THEN /\ lonPc' = "ValueError"
              /\ UNCHANGED <<order, lon_sorted, arr_sorted>>
         ELSE /\ order' = r.order
              /\ lon_sorted' = r.lon_sorted
              /\ arr_sorted' = r.arr_sorted
              /\ lonPc' = "returned"
    /\ UNCHANGED <<lon1d, arr2d, lon_sorted2, arr_sorted2, sanVars, aggVars, blkVars, rixVars, pipeVars>>

\* a second call, normalize_lon_and_align(lon_sorted, arr_sorted), on what the
\* first call returned
NormalizeAgain ==
    /\ lonPc = "returned"
    /\ \E r \in normalize_lon_and_align(lon_sorted, arr_sorted) :
         /\ ~r.raised
         /\ lon_sorted2' = r.lon_sorted
         /\ arr_sorted2' = r.arr_sorted
         /\ lonPc' = "returned twice"
    /\ UNCHANGED <<lon1d, arr2d, order, lon_sorted, arr_sorted, sanVars, aggVars, blkVars, rixVars, pipeVars>>

NextLon == NormalizeLonAndAlign \/ NormalizeAgain

SpecLon == InitLon /\ [][NextLon]_vars

\* ---------- properties of normalize_lon_and_align (SpecLon) ----------

\* C10 as stated: for every input axis every output longitude lies in
\* [-180, 180) and the output axis is strictly ascending.
C10_LonInRangeStrictlyAscending ==
    lonPc = "returned" =>
        /\ \A k \in DOMAIN lon_sorted : -180 <= lon_sorted[k] /\ lon_sorted[k] < 180
        /\ \A k \in 1..(Len(lon_sorted) - 1) : lon_sorted[k] < lon_sorted[k + 1]

\* C20 as stated: a second call on the output of the first returns the same
\* longitude axis and the same grid, for every axis and grid of matching width.
C20_NormalizeIdempotent ==
    lonPc = "returned twice" =>
        /\ lon_sorted2 = lon_sorted
        /\ arr_sorted2 = arr_sorted

\* C25: when the grid has one column per longitude the call returns, the
\* returned order is a permutation of the columns that puts the normalized
\* longitudes in ascending order, and every output column j is the input
\* column order[j] with that column's own normalized longitude; when the
\* widths differ the call fails and returns nothing.
C25_ColumnsFollowLongitudes ==
    /\ lonPc # "ready" =>
          (lonPc = "ValueError") = (Len(arr2d[1]) # Len(lon1d))
    /\ lonPc = "ValueError" =>
          order = <<>> /\ lon_sorted = <<>> /\ arr_sorted = <<>>
    /\ lonPc \in {"returned", "returned twice"} =>
          /\ order \in Perms(Len(lon1d))
          /\ \A j \in 1..(Len(lon1d) - 1) : lon_sorted[j] <= lon_sorted[j + 1]
          /\ DOMAIN lon_sorted = DOMAIN lon1d
          /\ \A j \in DOMAIN lon1d :
               /\ lon_sorted[j] = lon_norm(lon1d[order[j]])
               /\ \A r \in DOMAIN arr2d :
                    /\ DOMAIN arr_sorted[r] = DOMAIN lon1d
                    /\ arr_sorted[r][j] = arr2d[r][order[j]]

\* the axis 0, 190, 170: 190 wraps to -170 and goes first, the order 2, 1, 3
\* is no rotation of the columns
C25_Witness ==
    /\ lonPc = "returned"
    /\ lon1d = <<0, 190, 170>>
    /\ order = <<2, 1, 3>>
    /\ lon_sorted = <<-170, 0, 170>>
    /\ arr_sorted[1] = <<arr2d[1][2], arr2d[1][1], arr2d[1][3]>>
    /\ arr_sorted[2] = <<arr2d[2][2], arr2d[2][1], arr2d[2][3]>>
    /\ arr2d[1][1] # arr2d[1][2]

(***************************************************************************)
(* compute_local_hour on a longitude grid built as main builds it          *)
(* (build_tempo_forecast_summaries.py).  Longitudes are whole degrees.     *)
(***************************************************************************)

\* np.tile(lon.reshape(1, W), (H, 1))
tile_rows(lon, H) == [r \in 1..H |-> lon]

\* compute_local_hour(utc_end_ts, lon_deg_2d), element-wise
compute_local_hour_2d(utc_end_ts, lon_deg_2d) ==
    [r \in DOMAIN lon_deg_2d |->
        [c \in DOMAIN lon_deg_2d[r] |-> compute_local_hour(utc_end_ts, lon_deg_2d[r][c])]]

\* ---------- SpecHour: local hours on every axis of a bounded set ----------

MaxHourRows == 2

MaxHourCols == 2

\* end timestamps: day 0 at 00:00, 00:30, 01:00, 12:00, 23:30, day 1 at 00:00,
\* and a timestamp of 2023
HourTs == {0, 1800, 3600, 43200, 84600, 86400, 1700000000}

\* longitudes of [-180, 180)
HourLons == {-180, -91, -15, 0, 7, 15, 179}

InitHour ==
    /\ SanIdle
    /\ AggIdle
    /\ BlkIdle
    /\ RixIdle
    /\ LonIdle
    /\ CvIdle
    /\ SyIdle
    /\ StepIdle
    /\ MainIdle
    /\ hourPc = "ready"
    /\ hour_ts \in HourTs
    /\ hour_lon \in UNION {[1..w -> HourLons] : w \in 1..MaxHourCols}
    /\ hour_lon2d = <<>>
    /\ hour_grid = <<>>

\* main tiles the 1-D axis over the H rows of the first granule, and build_hod
\* calls compute_local_hour(end_ts, lon2d) for a granule
ComputeLocalHour ==
    /\ hourPc = "ready"
    /\ \E H \in 1..MaxHourRows :
         /\ hour_lon2d' = tile_rows(hour_lon, H)
         /\ hour_grid' = compute_local_hour_2d(hour_ts, tile_rows(hour_lon, H))
    /\ hourPc' = "returned"
    /\ UNCHANGED <<hour_ts, hour_lon, sanVars, aggVars, blkVars, rixVars, lonVars, cvVars, syVars,
                   stepVars, mainVars>>

NextHour == ComputeLocalHour

SpecHour == InitHour /\ [][NextHour]_vars

\* ---------- properties of compute_local_hour (SpecHour) ----------

\* the local time of column c in seconds: end timestamp plus lon / 360 of a day
LocalSeconds(c) == hour_ts + 240 * hour_lon[c]

RQuot(a, b) == Rat(a.num * b.den, a.den * b.num)

\* round(q) of Python 3 and np.round: to the nearest whole number, a tie going
\* to the even one
round_half_even(q) ==
    LET fl == q.num \div q.den
        twice == 2 * (q.num - fl * q.den)
    IN  IF twice < q.den THEN fl
        ELSE IF twice > q.den THEN fl + 1
        ELSE IF fl % 2 = 0 THEN fl ELSE fl + 1

\* np.round(q, 6) for a quotient
round6_q(q) ==
    IF q.k = "nan" THEN RNaN
    ELSE Rat(round_half_even(Rat(q.num * 1000000, q.den)), 1000000)

\* round(x, 6) for a float m * 10^e of one digit: x itself down to e = -6,
\* below that 0.0 or one unit of the sixth decimal (5e-7 rounds to 0.0)
round6(x) ==
    IF ~IsFinite(x) \/ x.e >= -6 THEN x
    ELSE IF x.e = -7 /\ x.m > 5 THEN Fin(1, -6)
    ELSE IF x.e = -7 /\ x.m < -5 THEN Fin(-1, -6)
    ELSE Zero

\* vec[::-1]
reversed(vec) == [k \in 1..Len(vec) |-> vec[Len(vec) + 1 - k]]

\* an axis value that is not finite (np.nan); every other axis value is a
\* whole number of degrees
AxisNaN == 999999

\* np.abs of the finite elements of np.diff(v), for the differences k..Len(v)-1:
\* a difference is finite when both its points are
RECURSIVE abs_diffs_from(_, _)
abs_diffs_from(v, k) ==
    IF k >= Len(v) THEN <<>>
    ELSE (IF v[k] # AxisNaN /\ v[k + 1] # AxisNaN THEN <<Abs(v[k + 1] - v[k])>> ELSE <<>>)
         \o abs_diffs_from(v, k + 1)

\* np.abs(diffs[np.isfinite(diffs)]) with diffs = np.diff(v)
abs_diffs(v) == abs_diffs_from(v, 1)

\* np.nanmedian of a non-empty sequence of whole numbers
median(xs) ==
    LET n == Len(xs)
        f == CHOOSE g \in argsorts(xs) : TRUE
    IN  IF n % 2 = 1 THEN Rat(xs[f[(n + 1) \div 2]], 1)
        ELSE Rat(xs[f[n \div 2]] + xs[f[(n \div 2) + 1]], 2)

\* mutant: with no finite difference the step is 0.0 and nothing is raised
infer_step_zero(vec) ==
    IF abs_diffs(vec) = <<>> THEN [raised |-> FALSE, step |-> Rat(0, 1)]
    ELSE [raised |-> FALSE, step |-> median(abs_diffs(vec))]

\* infer_step(vec): raises ValueError when no difference is finite
infer_step(vec) ==
    IF abs_diffs(vec) = <<>> THEN [raised |-> TRUE, step |-> RNaN]
    ELSE [raised |-> FALSE, step |-> median(abs_diffs(vec))]

\* the step used when infer_step raises
FallbackStep == Rat(2, 100)

\* try: dlat = infer_step(lat1d); dlon = infer_step(lon1d)
\* except Exception: dlat = dlon = 0.02
infer_steps(lat, lon) ==
    IF infer_step(lat).raised \/ infer_step(lon).raised
    THEN [dlat |-> FallbackStep, dlon |-> FallbackStep]
    ELSE [dlat |-> infer_step(lat).step, dlon |-> infer_step(lon).step]

\* max(1, int(round(grid_deg / max(1e-12, abs(d))))).  For d = 0 the quotient
\* is grid_deg * 1e12; the model takes grid_deg * 1e6, which as well exceeds
\* every extent of a grid of the model
block_factor(grid_deg, d) ==
    LET q == IF d.num = 0 THEN Rat(grid_deg.num * 1000000, grid_deg.den)
             ELSE RQuot(grid_deg, d)
        r == round_half_even(q)
    IN  IF r < 1 THEN 1 ELSE r

\* the float of a block mean that is a whole number of one digit (the native
\* cells of the model are chosen so that every block mean is one)
float_of(q) ==
    IF q.k = "nan" THEN NaN
    ELSE Fin(CHOOSE n \in -9..9 : q.den = 1 /\ q.num = n, 0)

\* the whole number of degrees of a coarse axis point (the native axes of the
\* model are chosen so that every block mean of an axis is one)
whole(q) == CHOOSE n \in {q.num} : q.den = 1

\* mutant: a descending axis is reversed without the rows
align_latitude_axis_only(lat, arr) ==
    IF lat[1] > lat[Len(lat)]
    THEN [lat |-> reversed(lat), arr |-> arr]
    ELSE [lat |-> lat, arr |-> arr]

\* lat1d[0] > lat1d[-1]: reverse the axis and the rows
align_latitude(lat, arr) ==
    IF lat[1] > lat[Len(lat)]
    THEN [lat |-> reversed(lat), arr |-> reversed(arr)]
    ELSE [lat |-> lat, arr |-> arr]

RECURSIVE SumSeq(_, _, _)
SumSeq(xs, lo, hi) == IF lo > hi THEN 0 ELSE xs[lo] + SumSeq(xs, lo + 1, hi)

\* axis[:n].reshape(n // by, by).mean(axis=1)
coarse_axis(axis, n, by) ==
    [i \in 1..(n \div by) |-> Rat(SumSeq(axis, (i - 1) * by + 1, i * by), by)]

\* np.clip(cf, 0.0, 1.0): NaN stays NaN
clip01(v) ==
    IF FLt(v, Zero) THEN Zero
    ELSE IF FGt(v, Fin(1, 0)) THEN Fin(1, 0)
    ELSE v

\* no cloud threshold (cloud_th = None)
NoThreshold == [k |-> "none", m |-> 0, e |-> 0]

\* PRODUCTS[product]["uses_cloud"] and cloud_th is not None and cloud_th >= 0
mask_enabled(product, cloud_th) ==
    /\ PRODUCTS[product].uses_cloud
    /\ cloud_th # NoThreshold
    /\ FGe(cloud_th, Zero)

\* mutant: the mask is compared with >= instead of >
cloud_masked_ge(cf, cloud_th) == FGe(cf, cloud_th)

\* cf_on_product > float(cloud_th), for one cell
cloud_masked(cf, cloud_th) == FGt(cf, cloud_th)

\* np.where(cf_on_product > float(cloud_th), np.nan, coarse)
apply_cloud_mask(coarse, cf, cloud_th) ==
    [i \in DOMAIN coarse |->
        [j \in DOMAIN coarse[i] |->
            IF cloud_masked(cf[i][j], cloud_th) THEN RNaN ELSE coarse[i][j]]]

\* the "data" of the payload: None (here NaN) for a cell that is not finite,
\* else the sanitized value rounded to 6 decimals
payload_data(coarse, product) ==
    [i \in DOMAIN coarse |->
        [j \in DOMAIN coarse[i] |->
            round6(sanitize_array_cell(float_of(coarse[i][j]), product))]]

\* what a call leaves when it ends before the payload is built
NoPayload == [shape |-> <<>>, lat |-> <<>>, lon |-> <<>>, data |-> <<>>]

\* the outcome of a call that ends early: ret is "None" or "raise"
early(ret, err) ==
    [ret |-> ret, err |-> err, lat1d |-> <<>>, lon1d |-> <<>>, arr |-> <<>>,
     by_y |-> 0, by_x |-> 0, lat_c |-> <<>>, lon_c |-> <<>>, coarse |-> <<>>,
     masked |-> FALSE, cf |-> <<>>, payload |-> NoPayload]

\* lines 367-408: sanitize, assemble the payload, and write it unless dry_run
convert_finish(lat1, lon1, arr, by, bx, lat_c, lon_c, coarse, masked, cf, out, product, dry_run) ==
    [ret |-> IF dry_run THEN "None" ELSE "written",
     err |-> "",
     lat1d |-> lat1, lon1d |-> lon1, arr |-> arr, by_y |-> by, by_x |-> bx,
     lat_c |-> lat_c, lon_c |-> lon_c, coarse |-> coarse, masked |-> masked, cf |-> cf,
     payload |-> [shape |-> <<Len(out), Len(out[1])>>,
                  lat |-> [i \in DOMAIN lat_c |-> round6_q(lat_c[i])],
                  lon |-> [j \in DOMAIN lon_c |-> round6_q(lon_c[j])],
                  data |-> payload_data(out, product)]]

\* lines 352-365 for one outcome rc of normalize_lon_and_align on the cloud
\* sample (its latitude already aligned): the mask on the coarse axes, clipped
cloud_on_product(latc1, rc, lat_c, lon_c) ==
    LET on == reindex_to(latc1, rc.lon_sorted, rc.arr_sorted,
                         [i \in DOMAIN lat_c |-> whole(lat_c[i])],
                         [j \in DOMAIN lon_c |-> whole(lon_c[j])])
    IN  [i \in DOMAIN on |-> [j \in DOMAIN on[i] |-> clip01(on[i][j])]]

\* lines 344-408: the cloud mask if it is enabled and a cloud sample is there,
\* then the rest of the call; one outcome for every column order of the sample
convert_masked(lat1, lon1, arr, by, bx, lat_c, lon_c, coarse, product, cloud_th, dry_run, cld) ==
    IF mask_enabled(product, cloud_th) /\ cld.sel /\ cld.nc
    THEN LET al == align_latitude(cld.lat, cld.arr)
         IN  {IF rc.raised THEN early("raise", "ValueError")
              ELSE convert_finish(lat1, lon1, arr, by, bx, lat_c, lon_c, coarse, TRUE,
                                  cloud_on_product(al.lat, rc, lat_c, lon_c),
                                  apply_cloud_mask(coarse,
                                      cloud_on_product(al.lat, rc, lat_c, lon_c), cloud_th),
                                  product, dry_run) :
                 rc \in normalize_lon_and_align(cld.lon, al.arr)}
    ELSE {convert_finish(lat1, lon1, arr, by, bx, lat_c, lon_c, coarse, FALSE, <<>>,
                         coarse, product, dry_run)}

\* lines 329-342 with the block factors known: trim, reduce, coarse axes
convert_blocks(lat1, lon1, arr, by, bx, product, cloud_th, dry_run, cld) ==
    IF trimmed(Len(arr), by) = 0 \/ trimmed(Len(arr[1]), bx) = 0
    THEN {early("None", "")}
    ELSE IF Len(lat1) < trimmed(Len(arr), by)
         THEN {early("raise", "ValueError")}    \* lat1d[:Hc].reshape fails
         ELSE convert_masked(lat1, lon1, arr, by, bx,
                             coarse_axis(lat1, trimmed(Len(arr), by), by),
                             coarse_axis(lon1, trimmed(Len(arr[1]), bx), bx),
                             block_reduce_mean(arr, by, bx),
                             product, cloud_th, dry_run, cld)

\* lines 316-326 for one outcome r of normalize_lon_and_align
convert_aligned(lat1, r, product, grid_deg, cloud_th, dry_run, cld) ==
    IF r.raised THEN {early("raise", "ValueError")}
    ELSE convert_blocks(lat1, r.lon_sorted, r.arr_sorted,
                        block_factor(grid_deg, infer_steps(lat1, r.lon_sorted).dlat),
                        block_factor(grid_deg, infer_steps(lat1, r.lon_sorted).dlon),
                        product, cloud_th, dry_run, cld)

\* convert_nc_to_json for the native sample g of the granule and the cloud
\* sample cld that select_best_cldo4 names: the set of possible outcomes
convert_nc_to_json(g, product, grid_deg, cloud_th, dry_run, cld) ==
    IF ~g.nc THEN {early("None", "")}                      \* NC not found
    ELSE IF ~g.has_var THEN {early("raise", "KeyError")}   \* read_main_array / read_axis
    ELSE IF g.ndim # 2 THEN {early("None", "")}            \* unexpected ndim
    ELSE UNION {convert_aligned(align_latitude(g.lat, g.arr).lat, r,
                                product, grid_deg, cloud_th, dry_run, cld) :
                   r \in normalize_lon_and_align(g.lon, align_latitude(g.lat, g.arr).arr)}

\* ---------- SpecConvert, SpecCloud: convert_nc_to_json on bounded samples ----------

\* the other groups of variables, unused by the conversion
CoreIdle ==
    SanIdle /\ AggIdle /\ BlkIdle /\ RixIdle /\ LonIdle /\ HourIdle /\ StepIdle /\ MainIdle

coreVars == <<sanVars, aggVars, blkVars, rixVars, lonVars, hourVars, stepVars, mainVars>>

\* native cells: missing, 4 and 8 (every mean of a block of at most 2 x 2 such
\* cells is a whole number)
ConvValues == {NaN, Fin(4, 0), Fin(8, 0)}

\* native latitude axes: one point, ascending, descending, three points descending
ConvLats == {<<10>>, <<10, 30>>, <<30, 10>>, <<30, 20, 10>>}

\* native longitude axes: one point, ascending, needing wraparound, two points
\* that normalize to the same longitude, three points scattered by wraparound
ConvLons == {<<0>>, <<0, 10>>, <<170, 190>>, <<-180, 180>>, <<170, 180, 190>>}

\* the grids of h rows and w columns: all over ConvValues up to four cells,
\* without missing cells above
ConvGrids(h, w) ==
    [1..h -> [1..w -> IF h * w <= 4 THEN ConvValues ELSE ConvValues \ {NaN}]]

\* a readable NC file with the product's variable and 1-D axes
Sample(arr, lat, lon) ==
    [nc |-> TRUE, has_var |-> TRUE, ndim |-> 2, arr |-> arr, lat |-> lat, lon |-> lon]

\* samples whose grid has one row per latitude and one column per longitude
GoodSamples ==
    {Sample(arr, lat, lon) :
        arr \in UNION {ConvGrids(h, w) : h \in 1..3, w \in 1..3}, lat \in ConvLats, lon \in ConvLons}

WellShaped(g) == Len(g.arr) = Len(g.lat) /\ Len(g.arr[1]) = Len(g.lon)

\* a missing file, a file without the variable, a 3-D variable, a grid with
\* fewer columns than longitudes, a grid with more rows than latitudes
BadSamples ==
    {[Sample(<<<<Fin(4, 0)>>>>, <<10>>, <<0>>) EXCEPT !.nc = FALSE],
     [Sample(<<<<Fin(4, 0)>>>>, <<10>>, <<0>>) EXCEPT !.has_var = FALSE],
     [Sample(<<<<Fin(4, 0)>>>>, <<10>>, <<0>>) EXCEPT !.ndim = 3],
     Sample(<<<<Fin(4, 0)>>, <<Fin(8, 0)>>>>, <<10, 30>>, <<0, 10>>),
     Sample(<<<<Fin(4, 0), Fin(8, 0)>>, <<Fin(8, 0), Fin(4, 0)>>>>, <<10>>, <<0, 10>>)}

\* no cloud granule in the cloud index
NoCloud == [sel |-> FALSE, nc |-> FALSE, arr |-> <<>>, lat |-> <<>>, lon |-> <<>>]

\* grid_deg: 0.02, 20 and 40 degrees
ConvGridDegs == {Rat(2, 100), Rat(20, 1), Rat(40, 1)}

InitConvert ==
    /\ CoreIdle
    /\ SyIdle
    /\ cvPc = "ready"
    /\ cv_g \in {g \in GoodSamples : WellShaped(g)} \cup BadSamples
    /\ cv_product \in {"no2", "o3tot", "cldo4"}
    /\ cv_grid_deg \in ConvGridDegs
    /\ cv_cloud_th = Fin(3, -1)
    /\ cv_dry_run \in BOOLEAN
    /\ cv_cld = NoCloud
    /\ cv_out = <<>>

\* cloud fractions of the cloud sample: below, above and on the threshold 0.3,
\* above 1, negative, missing
CloudGrids ==
    {<<<<Fin(2, -1), Fin(5, -1)>>, <<Fin(2, 0), NaN>>>>,
     <<<<Fin(5, -1), Fin(3, -1)>>, <<Fin(-1, 0), Fin(2, -1)>>>>}

\* the cloud sample: none in the index, in the index without its file, 2 x 2
\* on ascending or on descending and wrapped axes, one cell
CloudSamples ==
    {NoCloud, [NoCloud EXCEPT !.sel = TRUE]}
    \cup {[sel |-> TRUE, nc |-> TRUE, arr |-> cf, lat |-> ax[1], lon |-> ax[2]] :
             cf \in CloudGrids, ax \in {<<<<10, 30>>, <<-170, 170>>>>, <<<<30, 10>>, <<170, 190>>>>}}
    \cup {[sel |-> TRUE, nc |-> TRUE, arr |-> <<<<Fin(5, -1)>>>>, lat |-> <<20>>, lon |-> <<0>>]}

\* cloud_th: None, negative, 0 and 0.3
CloudThresholds == {NoThreshold, Fin(-1, 0), Zero, Fin(3, -1)}

InitCloud ==
    /\ CoreIdle
    /\ SyIdle
    /\ cvPc = "ready"
    /\ cv_g \in {Sample(arr, lat, <<170, 190>>) :
                    arr \in ConvGrids(2, 2), lat \in {<<10, 30>>, <<30, 10>>}}
    /\ cv_product \in {"no2", "o3tot", "cldo4"}
    /\ cv_grid_deg \in {Rat(20, 1), Rat(40, 1)}
    /\ cv_cloud_th \in CloudThresholds
    /\ cv_dry_run = FALSE
    /\ cv_cld \in CloudSamples
    /\ cv_out = <<>>

\* convert_nc_to_json(in_root, product, gid, grid_deg, cloud_th, dry_run)
Convert ==
    /\ cvPc = "ready"
    /\ \E r \in convert_nc_to_json(cv_g, cv_product, cv_grid_deg, cv_cloud_th,
                                   cv_dry_run, cv_cld) :
         /\ cv_out' = r
         /\ cvPc' = r.ret
    /\ UNCHANGED <<cv_g, cv_product, cv_grid_deg, cv_cloud_th, cv_dry_run, cv_cld,
                   sanVars, aggVars, blkVars, rixVars, lonVars, hourVars, syVars, stepVars,
                   mainVars>>

NextConvert == Convert

\* the conversion without a cloud sample
SpecConvert == InitConvert /\ [][NextConvert]_vars

\* the conversion of 2 x 2 samples with a cloud sample
SpecCloud == InitCloud /\ [][NextConvert]_vars

\* ---------- properties of convert_nc_to_json (SpecConvert, SpecCloud) ----------

\* the call got as far as the payload (written, or dry_run)
CvPayload == cvPc \in {"written", "None"} /\ cv_out.payload # NoPayload

\* a < b and a <= b for two quotients
RLt(a, b) == a.num * b.den < b.num * a.den

RLe(a, b) == a.num * b.den <= b.num * a.den

\* what the payload holds for a native cell that no block mean and no mask
\* has changed: the sanitized value, rounded
CellOut(v) == round6(sanitize_array_cell(v, cv_product))

\* C11: with block factors (1, 1) the payload's latitude axis is strictly
\* ascending, its longitude axis is ascending, and there are a row for every
\* output row and a one-to-one assignment of native columns to output columns
\* such that the output axis values are the native latitude of the row and
\* the normalized native longitude of the column and every output cell holds
\* the (sanitized) native cell of that row and column.
C11_Orientation ==
    (CvPayload /\ cv_out.by_y = 1 /\ cv_out.by_x = 1) =>
        LET P == cv_out.payload
        IN  /\ \A i \in 1..(Len(P.lat) - 1) : RLt(P.lat[i], P.lat[i + 1])
            /\ \A j \in 1..(Len(P.lon) - 1) : RLe(P.lon[j], P.lon[j + 1])
            /\ Len(P.lat) = Len(cv_g.lat) /\ Len(P.lon) = Len(cv_g.lon)
            /\ \E col \in Perms(Len(cv_g.lon)) :
                 /\ \A j \in DOMAIN P.lon : P.lon[j] = Rat(lon_norm(cv_g.lon[col[j]]), 1)
                 /\ \A i \in DOMAIN P.lat :
                      \E a \in DOMAIN cv_g.lat :
                          /\ P.lat[i] = Rat(cv_g.lat[a], 1)
                          /\ \A j \in DOMAIN P.lon :
                               P.data[i][j] = CellOut(cv_g.arr[a][col[j]])

\* latitudes [30, 10], longitudes [170, 190], block factors (1, 1): the rows
\* come out reversed and the columns swapped, under the axes [10, 30] and
\* [-170, 170]
C11_Witness ==
    /\ cvPc = "written"
    /\ cv_product = "o3tot"
    /\ cv_g.lat = <<30, 10>>
    /\ cv_g.lon = <<170, 190>>
    /\ cv_g.arr = <<<<Fin(4, 0), Fin(8, 0)>>, <<NaN, Fin(4, 0)>>>>
    /\ cv_out.by_y = 1 /\ cv_out.by_x = 1
    /\ cv_out.payload.lat = <<Rat(10, 1), Rat(30, 1)>>
    /\ cv_out.payload.lon = <<Rat(-170, 1), Rat(170, 1)>>
    /\ cv_out.payload.data = <<<<Fin(4, 0), NaN>>, <<Fin(8, 0), Fin(4, 0)>>>>

\* the payload cell of a coarse cell that the mask has not changed
Unmasked(i, j) == CellOut(float_of(cv_out.coarse[i][j]))

\* the product uses the mask, the threshold is given and >= 0, and the cloud
\* index names a sample whose file is there
MaskApplies ==
    /\ cv_product \in {"no2", "hcho", "o3tot"}
    /\ cv_cloud_th # NoThreshold
    /\ ~FLt(cv_cloud_th, Zero)
    /\ cv_cld.sel /\ cv_cld.nc

\* C12: when the mask applies, the mask value of a coarse cell is the cloud
\* sample's value clamped to [0, 1] (the sample's own cell where the cell's
\* latitude and longitude are points of the sample's axes), a cell whose mask
\* value exceeds the threshold is missing whatever its own value, and every
\* other cell is as without mask; when the mask does not apply (product
\* without cloud masking, no or negative threshold, no sample) every cell is
\* as without mask.
C12_CloudMask ==
    CvPayload =>
        LET P == cv_out.payload
        IN  /\ cv_out.masked = MaskApplies
            /\ \A i \in DOMAIN P.data : \A j \in DOMAIN P.data[i] :
                 IF MaskApplies
                 THEN /\ ~FLt(cv_out.cf[i][j], Zero) /\ ~FGt(cv_out.cf[i][j], Fin(1, 0))
                      /\ \A a \in DOMAIN cv_cld.lat, b \in DOMAIN cv_cld.lon :
                           (/\ Rat(cv_cld.lat[a], 1) = cv_out.lat_c[i]
                            /\ Rat(lon_norm(cv_cld.lon[b]), 1) = cv_out.lon_c[j])
                               => cv_out.cf[i][j] = clip01(cv_cld.arr[a][b])
                      /\ P.data[i][j] = IF FGt(cv_out.cf[i][j], cv_cloud_th) THEN NaN
                                        ELSE Unmasked(i, j)
                 ELSE P.data[i][j] = Unmasked(i, j)

\* threshold 0.3 over a grid without missing cells: the cell under the cloud
\* fraction 0.5 and the cell under 2.0 (clamped to 1.0) are missing, the cell
\* under 0.2 is kept
C12_Witness ==
    /\ cvPc = "written"
    /\ cv_out.masked
    /\ cv_cloud_th = Fin(3, -1)
    /\ \A i \in DOMAIN cv_g.arr : \A j \in DOMAIN cv_g.arr[i] : IsFinite(cv_g.arr[i][j])
    /\ \E i \in DOMAIN cv_out.cf : \E j \in DOMAIN cv_out.cf[i] :
         cv_out.cf[i][j] = Fin(5, -1) /\ cv_out.payload.data[i][j] = NaN
    /\ \E i \in DOMAIN cv_out.cf : \E j \in DOMAIN cv_out.cf[i] :
         cv_out.cf[i][j] = Fin(1, 0) /\ cv_out.payload.data[i][j] = NaN
    /\ \E i \in DOMAIN cv_out.cf : \E j \in DOMAIN cv_out.cf[i] :
         cv_out.cf[i][j] = Fin(2, -1) /\ IsFinite(cv_out.payload.data[i][j])

\* a negative threshold with a cloud sample at hand: nothing is masked
C12_WitnessOff ==
    /\ cvPc = "written"
    /\ cv_cloud_th = Fin(-1, 0)
    /\ cv_cld.sel /\ cv_cld.nc
    /\ ~cv_out.masked
    /\ \A i \in DOMAIN cv_out.payload.data : \A j \in DOMAIN cv_out.payload.data[i] :
         IsFinite(cv_out.payload.data[i][j])

(***************************************************************************)
(* sync_product (tempo_to_json.py): the batch over the granules of the     *)
(* input index.  A JSON file <product>_<gid>.json is named by its gid.     *)
(***************************************************************************)

\* cloud_th=(None if cloud_th is not None and cloud_th < 0 else cloud_th)
sync_cloud_th(cloud_th) ==
    IF cloud_th # NoThreshold /\ FLt(cloud_th, Zero) THEN NoThreshold ELSE cloud_th

\* extract_gid_from_filename(fn) finds a gid: the name ends with
\* _(G[0-9A-Z\-]+-LARC_CLOUD).json
gid_extracted(gid) ==
    gid \in {"G1-LARC_CLOUD", "G2-LARC_CLOUD", "G3-LARC_CLOUD", "G4-LARC_CLOUD", "G9-LARC_CLOUD"}

\* mutant: an exception raised by a conversion ends the loop
after_granule_abort(pos, outcome, n) == IF outcome = "raise" THEN n + 1 ELSE pos + 1

\* the position of the loop after a granule: the try / except of the loop body
\* catches every Exception, and the loop goes on with the next granule
after_granule(pos, outcome, n) == pos + 1

\* ---------- SpecSync: sync_product on every batch of a bounded set ----------

MaxBatch == 3

\* granule ids of the input index, in key order
GidNames == <<"G1-LARC_CLOUD", "G2-LARC_CLOUD", "G3-LARC_CLOUD", "G4-LARC_CLOUD">>

\* a native sample that converts at grid_deg 20: block factors 1 by 2
SyncGood ==
    Sample(<<<<Fin(4, 0), Fin(8, 0)>>, <<Fin(8, 0), Fin(4, 0)>>>>, <<10, 30>>, <<0, 10>>)

\* a native sample of a single cell: the block factors exceed its extent, and
\* the trimming leaves Hc == 0
SyncTiny == Sample(<<<<Fin(4, 0)>>>>, <<10>>, <<0>>)

\* native samples of a batch: the two above; one whose grid has fewer columns
\* than longitudes (ValueError); one without the variable (KeyError); one
\* without its NC file
SyncSamples ==
    {SyncGood,
     SyncTiny,
     Sample(<<<<Fin(4, 0)>>, <<Fin(8, 0)>>>>, <<10, 30>>, <<0, 10>>),
     [SyncTiny EXCEPT !.has_var = FALSE],
     [SyncTiny EXCEPT !.nc = FALSE]}

\* the input indexes of at most MaxBatch granules
SyncIndexes ==
    UNION {{[k \in 1..n |-> [gid |-> GidNames[k], g |-> f[k]]] : f \in [1..n -> SyncSamples]} :
              n \in 0..MaxBatch}

\* JSON files found in the json directory before the run: the output of the
\* first granule, and two files of granules that are in no index
SyncFilesBefore == SUBSET {"G1-LARC_CLOUD", "G9-LARC_CLOUD", "granule9"}

InitSync ==
    /\ CoreIdle
    /\ CvIdle
    /\ syPc = "ready"
    /\ sy_index \in SyncIndexes
    /\ sy_dry_run \in BOOLEAN
    /\ sy_limit \in {0, 1}
    /\ sy_wanted = <<>>
    /\ sy_pos = 0
    /\ sy_json \in SyncFilesBefore
    /\ sy_done = 0
    /\ sy_log = <<>>
    /\ sy_out_index = {}

\* lines 421-430: wanted_gids = list(inp_idx.keys()), cut to limit if limit > 0
SyncBegin ==
    /\ syPc = "ready"
    /\ sy_wanted' = [k \in 1..(IF sy_limit > 0 /\ sy_limit < Len(sy_index)
                                THEN sy_limit ELSE Len(sy_index)) |-> sy_index[k].gid]
    /\ sy_done' = 0
    /\ sy_pos' = 1
    /\ syPc' = "loop"
    /\ UNCHANGED <<sy_index, sy_dry_run, sy_limit, sy_json, sy_log, sy_out_index,
                   coreVars, cvVars>>

\* lines 431-450: one pass of the loop over wanted_gids (product no2,
\* grid_deg 20, cloud_th 0.3, an empty cloud index)
SyncGranule ==
    /\ syPc = "loop"
    /\ sy_pos <= Len(sy_wanted)
    /\ LET gid == sy_wanted[sy_pos]
       IN  IF gid \in sy_json
           THEN /\ sy_log' = Append(sy_log, [gid |-> gid, outcome |-> "exists"])
                /\ sy_pos' = sy_pos + 1
                /\ UNCHANGED <<sy_json, sy_done>>
           ELSE \E r \in convert_nc_to_json(sy_index[sy_pos].g, "no2", Rat(20, 1),
                                            sync_cloud_th(Fin(3, -1)), sy_dry_run, NoCloud) :
                    /\ sy_log' = Append(sy_log, [gid |-> gid, outcome |-> r.ret])
                    /\ sy_json' = IF r.ret = "written" THEN sy_json \cup {gid} ELSE sy_json
                    /\ sy_done' = IF r.ret = "written" THEN sy_done + 1 ELSE sy_done
                    /\ sy_pos' = after_granule(sy_pos, r.ret, Len(sy_wanted))
    /\ UNCHANGED <<syPc, sy_index, sy_dry_run, sy_limit, sy_wanted, sy_out_index,
                   coreVars, cvVars>>

\* the gids of the input index
IndexGids == {sy_index[k].gid : k \in DOMAIN sy_index}

\* lines 452-497: remove the JSON files whose gid is extracted and is not in
\* the input index, write json/index.json, return done
SyncFinish ==
    /\ syPc = "loop"
    /\ sy_pos > Len(sy_wanted)
    /\ IF sy_dry_run
       THEN UNCHANGED <<sy_json, sy_out_index>>
       ELSE /\ sy_json' = {f \in sy_json : ~(gid_extracted(f) /\ f \notin IndexGids)}
            /\ sy_out_index' = {f \in IndexGids : f \in sy_json'}
    /\ syPc' = "returned"
    /\ UNCHANGED <<sy_index, sy_dry_run, sy_limit, sy_wanted, sy_pos, sy_done, sy_log,
                   coreVars, cvVars>>

NextSync == SyncBegin \/ SyncGranule \/ SyncFinish

SpecSync == InitSync /\ [][NextSync]_vars

\* the passes of the loop that ran a conversion that failed: it returned None
\* or raised
FailedPasses == {k \in DOMAIN sy_log : sy_log[k].outcome \in {"None", "raise"}}

\* C15: a granule whose conversion fails (the trimming leaves Hc == 0 or
\* Wc == 0, the NC file is missing, or an error is raised) has no JSON file
\* written and is not counted, and the loop goes on: the passes made so far are
\* exactly the granules before the loop position, in order, and when
\* sync_product returns every wanted granule has had its pass.  No sample but
\* the good one converts.
C15_FailureSkippedBatchContinues ==
    syPc \in {"loop", "returned"} =>
        /\ Len(sy_log) = sy_pos - 1
        /\ \A k \in DOMAIN sy_log : sy_log[k].gid = sy_wanted[k]
        /\ syPc = "returned" => Len(sy_log) = Len(sy_wanted)
        /\ \A k \in DOMAIN sy_log :
             sy_log[k].outcome # "exists" /\ sy_index[k].g # SyncGood
                 => k \in FailedPasses
        /\ \A k \in FailedPasses : sy_wanted[k] \notin sy_json
        /\ \A k \in FailedPasses : sy_wanted[k] \notin sy_out_index
        /\ sy_done = Cardinality({k \in DOMAIN sy_log : sy_log[k].outcome = "written"})

\* a batch of three has returned: the first granule's trimming left Hc == 0,
\* the second raised, and the third was converted and written
C15_Witness ==
    /\ syPc = "returned"
    /\ Len(sy_wanted) = 3
    /\ sy_index[1].g = SyncTiny /\ sy_log[1].outcome = "None"
    /\ sy_log[2].outcome = "raise"
    /\ sy_log[3].outcome = "written"
    /\ sy_wanted[3] \in sy_json /\ sy_wanted[3] \in sy_out_index
    /\ sy_wanted[1] \notin sy_json /\ sy_wanted[2] \notin sy_json
    /\ sy_done = 1

\* C30: when a run without dry_run has returned, every granule JSON file of
\* the json directory belongs to a granule of the input index, whatever the
\* form of the granule id in the file's name.
C30_NoStaleFiles ==
    syPc = "returned" /\ ~sy_dry_run => sy_json \subseteq IndexGids

(***************************************************************************)
(* infer_step (tempo_to_json.py), alone and inside convert_nc_to_json      *)
(***************************************************************************)

\* ---------- SpecStep: infer_step on bounded axes, the conversion on samples
\* ---------- with and without an axis of a single point

MaxAxis == 4

\* axis values: whole degrees and the value that is not finite
StepPoints == {AxisNaN, 0, 10, 30}

StepAxes == UNION {[1..n -> StepPoints] : n \in 0..MaxAxis}

\* native samples: a single cell; one row; one column; 2 x 2
StepSamples ==
    {Sample(<<<<Fin(4, 0)>>>>, <<10>>, <<0>>),
     Sample(<<<<Fin(4, 0), Fin(8, 0)>>>>, <<10>>, <<0, 10>>),
     Sample(<<<<Fin(4, 0)>>, <<Fin(8, 0)>>>>, <<10, 30>>, <<0>>),
     Sample(<<<<Fin(4, 0), Fin(8, 0)>>, <<Fin(8, 0), Fin(4, 0)>>>>, <<10, 30>>, <<0, 10>>)}

InitStep ==
    /\ SanIdle /\ AggIdle /\ BlkIdle /\ RixIdle /\ LonIdle /\ HourIdle /\ SyIdle /\ MainIdle
    /\ stepPc = "ready"
    /\ step_vec \in StepAxes
    /\ step_out = 0
    /\ cvPc = "ready"
    /\ cv_g \in StepSamples
    /\ cv_product = "o3tot"
    /\ cv_grid_deg \in {Rat(2, 100), Rat(20, 1)}
    /\ cv_cloud_th = Fin(3, -1)
    /\ cv_dry_run = FALSE
    /\ cv_cld = NoCloud
    /\ cv_out = <<>>

\* infer_step(vec)
InferStep ==
    /\ stepPc = "ready"
    /\ \E r \in {infer_step(step_vec)} :
         IF r.raised
         THEN /\ stepPc' = "ValueError"
              /\ UNCHANGED step_out
         ELSE /\ stepPc' = "returned"
              /\ step_out' = r.step
    /\ UNCHANGED <<step_vec, sanVars, aggVars, blkVars, rixVars, lonVars, hourVars, cvVars, syVars,
                   mainVars>>

\* Convert leaves the variables of infer_step alone, InferStep those of the
\* conversion
NextStep == InferStep \/ Convert

SpecStep == InitStep /\ [][NextStep]_vars

\* ---------- properties of infer_step (SpecStep) ----------

\* the consecutive pairs of the axis whose two points are finite
FinitePairsOf(vec) == {k \in 1..(Len(vec) - 1) : vec[k] # AxisNaN /\ vec[k + 1] # AxisNaN}

AbsDiff(vec, k) == Abs(vec[k + 1] - vec[k])

\* d is the element of rank r (from 0) among the absolute finite differences
\* of vec in ascending order
HasRank(vec, d, r) ==
    /\ \E k \in FinitePairsOf(vec) : AbsDiff(vec, k) = d
    /\ Cardinality({k \in FinitePairsOf(vec) : AbsDiff(vec, k) < d}) <= r
    /\ Cardinality({k \in FinitePairsOf(vec) : AbsDiff(vec, k) <= d}) > r

\* q is the median of the absolute finite differences of vec: the mean of the
\* two elements of middle rank (one element, for an odd number)
IsMedian(vec, q) ==
    LET n == Cardinality(FinitePairsOf(vec))
    IN  \E lo, hi \in {AbsDiff(vec, k) : k \in FinitePairsOf(vec)} :
            /\ HasRank(vec, lo, (n - 1) \div 2)
            /\ HasRank(vec, hi, n \div 2)
            /\ q = Rat(lo + hi, 2)

\* an axis of the sample has no finite consecutive difference
Degenerate(g) == FinitePairsOf(g.lat) = {} \/ FinitePairsOf(g.lon) = {}

\* max(1, round(grid_deg / 0.02)), the block factor the fallback step gives
FallbackFactor ==
    LET r == round_half_even(Rat(cv_grid_deg.num * 100, cv_grid_deg.den * 2))
    IN  IF r < 1 THEN 1 ELSE r

MaxTrim == 3

\* the first n points of the axes 10, 20, ... and 0, 10, ...
TrimLat(n) == [k \in 1..n |-> 10 * k]

TrimLon(n) == [k \in 1..n |-> 10 * (k - 1)]

\* grids of h x w cells: every row holds one value of its own in all columns
\* but the last, and the last column holds one value in all rows
TrimGrids(h, w) ==
    {[r \in 1..h |-> [c \in 1..w |-> IF c = w THEN e ELSE rowv[r]]] :
        rowv \in [1..h -> ConvValues], e \in ConvValues}

\* samples of 2..MaxTrim rows and columns, the latitudes ascending or descending
TrimSamples ==
    UNION {{Sample(arr, lat, TrimLon(w)) :
               arr \in TrimGrids(h, w), lat \in {TrimLat(h), reversed(TrimLat(h))}} :
           h \in 2..MaxTrim, w \in 2..MaxTrim}

InitTrim ==
    /\ CoreIdle
    /\ SyIdle
    /\ cvPc = "ready"
    /\ cv_g \in TrimSamples
    /\ cv_product = "o3tot"
    /\ cv_grid_deg \in {Rat(10, 1), Rat(20, 1)}
    /\ cv_cloud_th = Fin(3, -1)
    /\ cv_dry_run = FALSE
    /\ cv_cld = NoCloud
    /\ cv_out = <<>>

SpecTrim == InitTrim /\ [][NextConvert]_vars

\* ---------- properties of the trimming (SpecTrim) ----------

\* the grid with every cell outside the first H rows and W columns replaced by v
Replaced(arr, H, W, v) ==
    [r \in DOMAIN arr |-> [c \in DOMAIN arr[r] |-> IF r <= H /\ c <= W THEN arr[r][c] ELSE v]]

\* the axis with every point after the first n replaced by x
ReplacedAxis(axis, n, x) == [k \in DOMAIN axis |-> IF k <= n THEN axis[k] ELSE x]

\* coarse cell (i, j) is missing exactly when every native cell of its block is
BlockAllMissing(arr, by, bx, i, j) ==
    \A a \in 1..by, b \in 1..bx : ~IsFinite(arr[(i - 1) * by + a][(j - 1) * bx + b])

\* C26: for the aligned native grid of h x w cells and the block factors
\* (by_y, by_x) of a conversion, the coarse grid and the payload have the
\* shape (h div by_y, w div by_x) and the coarse axes the lengths of its rows
\* and columns; every coarse latitude and longitude is the mean of the native
\* axis values of its block; replacing the cells, and the axis points, beyond
\* the largest multiples of the block factors by anything changes no coarse
\* cell and no coarse axis value; a coarse cell is missing exactly when its
\* block has no finite cell.
C26_TrimToBlockMultiple ==
    cvPc = "written" =>
        LET arr == cv_out.arr
            by == cv_out.by_y
            bx == cv_out.by_x
            Hc == (Len(arr) \div by) * by
            Wc == (Len(arr[1]) \div bx) * bx
        IN  /\ Len(cv_out.coarse) = Len(arr) \div by
            /\ \A i \in DOMAIN cv_out.coarse : Len(cv_out.coarse[i]) = Len(arr[1]) \div bx
            /\ cv_out.payload.shape = <<Len(arr) \div by, Len(arr[1]) \div bx>>
            /\ Len(cv_out.payload.data) = Len(arr) \div by
            /\ Len(cv_out.lat_c) = Len(cv_out.coarse)
            /\ Len(cv_out.lon_c) = Len(cv_out.coarse[1])
            /\ \A i \in DOMAIN cv_out.lat_c :
                 cv_out.lat_c[i] = Rat(SumSeq(cv_out.lat1d, (i - 1) * by + 1, i * by), by)
            /\ \A j \in DOMAIN cv_out.lon_c :
                 cv_out.lon_c[j] = Rat(SumSeq(cv_out.lon1d, (j - 1) * bx + 1, j * bx), bx)
            /\ \A v \in ConvValues :
                 block_reduce_mean(Replaced(arr, Hc, Wc, v), by, bx) = cv_out.coarse
            /\ \A x \in {0, 90} :
                 /\ coarse_axis(ReplacedAxis(cv_out.lat1d, Hc, x), Hc, by) = cv_out.lat_c
                 /\ coarse_axis(ReplacedAxis(cv_out.lon1d, Wc, x), Wc, bx) = cv_out.lon_c
            /\ \A i \in DOMAIN cv_out.coarse : \A j \in DOMAIN cv_out.coarse[i] :
                 (cv_out.coarse[i][j] = RNaN) = BlockAllMissing(arr, by, bx, i, j)

\* a grid of 3 x 3 cells with descending latitudes at grid_deg 20: the block
\* factors are (2, 2), the coarse grid is 1 x 1 over the latitudes 10, 20 and
\* the longitudes 0, 10; the row of latitude 30 and the column of longitude
\* 20, which hold 8, are dropped, and the coarse cell is the 4 of its block
C26_Witness ==
    /\ cvPc = "written"
    /\ Len(cv_g.arr) = 3 /\ Len(cv_g.arr[1]) = 3
    /\ cv_g.lat = <<30, 20, 10>>
    /\ cv_out.by_y = 2 /\ cv_out.by_x = 2
    /\ cv_out.payload.shape = <<1, 1>>
    /\ cv_out.lat_c = <<Rat(15, 1)>>
    /\ cv_out.lon_c = <<Rat(5, 1)>>
    /\ cv_g.arr = <<<<Fin(8, 0), Fin(8, 0), Fin(8, 0)>>,
                    <<Fin(4, 0), Fin(4, 0), Fin(8, 0)>>,
                    <<Fin(4, 0), Fin(4, 0), Fin(8, 0)>>>>
    /\ cv_out.coarse = <<<<Rat(4, 1)>>>>

(***************************************************************************)
(* build_latest and build_hod under reordering and sharding of the         *)
(* granules (build_tempo_forecast_summaries.py)                            *)
(***************************************************************************)

\* ---------- SpecMerge: build_latest on granules with distinct end timestamps ----------

MaxMerge == 3

\* the k-th end timestamp, half past the hour k - 1 of day 0
MergeTs(k) == 3600 * k - 1800

\* n granules with the end timestamps MergeTs(1..n), listed oldest first or
\* newest first; F[i] is the set of cells in which the i-th oldest granule is
\* finite, with the value i
MergeStacks ==
    UNION {{[i \in 1..n |->
               LET k == IF up THEN i ELSE n + 1 - i
               IN  [end_ts |-> MergeTs(k),
                    grid |-> [c \in Cells |-> IF c \in F[k] THEN Fin(k, 0) ELSE NaN]]] :
             F \in [1..n -> SUBSET Cells], up \in BOOLEAN} :
           n \in 2..MaxMerge}

InitMerge ==
    /\ PipeIdle
    /\ SanIdle
    /\ BlkIdle
    /\ RixIdle
    /\ LonIdle
    /\ stack_in \in MergeStacks
    /\ values_stack = stack_in
    /\ latestPc = "ready"
    /\ latest = <<>>
    /\ latest_ts = <<>>
    /\ age_h = <<>>
    /\ newest_end_ts = 0
    /\ now_ts = 0
    /\ hodPc = "ready"
    /\ lon2d = <<>>
    /\ min_per_hour = 0
    /\ hod_sum = <<>>
    /\ hod_cnt = <<>>
    /\ hour_counts = <<>>
    /\ hod_grids = <<>>

SpecMerge == InitMerge /\ [][NextLatest]_vars

\* ---------- properties of build_latest on distinct timestamps (SpecMerge) ----------

\* the supplied collection in the order p
Permuted(stack, p) == [i \in DOMAIN stack |-> stack[p[i]]]

\* the granules of the supplied collection whose positions are in B, in the
\* supplied order
RECURSIVE Shard(_, _, _)
Shard(stack, B, i) ==
    IF i > Len(stack) THEN <<>>
    ELSE (IF i \in B THEN <<stack[i]>> ELSE <<>>) \o Shard(stack, B, i + 1)

\* the sequences of disjoint non-empty sets that cover S
RECURSIVE OrderedPartitions(_)
OrderedPartitions(S) ==
    IF S = {} THEN {<<>>}
    ELSE UNION {{<<B>> \o rest : rest \in OrderedPartitions(S \ B)} : B \in (SUBSET S) \ {{}}}

\* the value and the timestamp of every cell of a partial result; a cell
\* with no finite value is no candidate and has no timestamp
Partial(r) ==
    [c \in Cells |-> IF IsFinite(r.latest[c])
                     THEN [value |-> r.latest[c], ts |-> r.latest_ts[c]]
                     ELSE [value |-> NaN, ts |-> 0]]

\* per cell, the candidate with the later timestamp
MergeTwo(p, q) ==
    [c \in Cells |->
        IF IsFinite(p[c].value) /\ (~IsFinite(q[c].value) \/ p[c].ts > q[c].ts)
        THEN p[c] ELSE q[c]]

\* the partial results of the shards bs[i..], merged from left to right into acc
RECURSIVE MergeAll(_, _, _, _)
MergeAll(stack, bs, i, acc) ==
    IF i > Len(bs) THEN acc
    ELSE MergeAll(stack, bs, i + 1,
                  MergeTwo(acc, Partial(build_latest(Shard(stack, bs[i], 1), 0))))

\* C23: for granules with pairwise distinct end timestamps, build_latest
\* gives the same values and per-cell timestamps in whatever order the
\* collection is supplied; and for every partition of the granules into
\* shards, taken in every order, merging the shards' results cell by cell,
\* keeping the candidate with the later timestamp, gives the values and the
\* timestamps of the one sequential pass.
C23_MergeEquivalence ==
    latestPc = "returned" =>
        /\ \A p \in Perms(Len(stack_in)) :
               LET r == build_latest(Permuted(stack_in, p), now_ts)
               IN  /\ r.latest = latest
                   /\ r.latest_ts = latest_ts
                   /\ r.age_h = age_h
        /\ \A bs \in OrderedPartitions(1..Len(stack_in)) :
               MergeAll(stack_in, bs, 2,
                        Partial(build_latest(Shard(stack_in, bs[1], 1), 0)))
                 = Partial([latest |-> latest, latest_ts |-> latest_ts])

\* three granules listed newest first; the first cell is finite in the oldest
\* and the newest, the second in the middle one only: the newest supplies
\* the first cell and the middle one the second, also when the shards are
\* {oldest, newest} and {middle}
C23_Witness ==
    /\ latestPc = "returned"
    /\ Len(stack_in) = 3
    /\ stack_in[1].end_ts > stack_in[2].end_ts /\ stack_in[2].end_ts > stack_in[3].end_ts
    /\ FiniteIn(<<1, 1>>) = {1, 3}
    /\ FiniteIn(<<1, 2>>) = {2}
    /\ latest[<<1, 1>>] = stack_in[1].grid[<<1, 1>>] /\ latest_ts[<<1, 1>>] = stack_in[1].end_ts
    /\ latest[<<1, 2>>] = stack_in[2].grid[<<1, 2>>] /\ latest_ts[<<1, 2>>] = stack_in[2].end_ts
    /\ MergeTwo(Partial(build_latest(Shard(stack_in, {1, 3}, 1), 0)),
                Partial(build_latest(Shard(stack_in, {2}, 1), 0)))
         = Partial([latest |-> latest, latest_ts |-> latest_ts])

\* ---------- SpecShard: build_hod on granules whose sums round ----------

MaxShard == 3

\* cells of 1.0 and 20.0: 1 + 1 + 20 is 22, and 20 + 1 + 1 is 20, because
\* 21 is no float of FloatBits bits and rounds to 20
ShardGrids ==
    {[c \in Cells |-> Fin(1, 0)],
     [c \in Cells |-> IF c = <<1, 1>> THEN Fin(2, 1) ELSE NaN],
     [c \in Cells |-> IF c = <<1, 1>> THEN NaN ELSE Fin(1, 0)]}

\* the granules of 1800 s carry a finite first cell, the later one does not
ShardGranules ==
    {g \in [end_ts : AggTs, grid : ShardGrids] :
        (g.end_ts = 1800) = (g.grid[<<1, 1>>] # NaN)}

ShardStacks == UNION {[1..n -> ShardGranules] : n \in 1..MaxShard}

InitShard ==
    /\ PipeIdle
    /\ SanIdle
    /\ BlkIdle
    /\ RixIdle
    /\ LonIdle
    /\ stack_in \in ShardStacks
    /\ values_stack = stack_in
    /\ latestPc = "ready"
    /\ latest = <<>>
    /\ latest_ts = <<>>
    /\ age_h = <<>>
    /\ newest_end_ts = 0
    /\ now_ts = 0
    /\ hodPc = "ready"
    /\ lon2d = <<>>
    /\ min_per_hour = 0
    /\ hod_sum = <<>>
    /\ hod_cnt = <<>>
    /\ hour_counts = <<>>
    /\ hod_grids = <<>>

SpecShard == InitShard /\ [][NextHod]_vars

\* ---------- properties of build_hod under reordering and sharding (SpecShard) ----------

\* the element-wise sum of two partial accumulators
AccAdd(a, b) ==
    [hod_sum |-> [h \in Hours |-> [c \in Cells |-> fadd(a.hod_sum[h][c], b.hod_sum[h][c])]],
     hod_cnt |-> [h \in Hours |-> [c \in Cells |-> a.hod_cnt[h][c] + b.hod_cnt[h][c]]],
     hour_counts |-> [h \in Hours |-> a.hour_counts[h] + b.hour_counts[h]]]

\* the accumulators of the shards bs[i..], added from left to right to acc
RECURSIVE AccAll(_, _, _, _, _)
AccAll(stack, bs, i, acc, lon) ==
    IF i > Len(bs) THEN acc
    ELSE AccAll(stack, bs, i + 1,
                AccAdd(acc, hod_loop(Shard(stack, bs[i], 1), 1, hod_zero, lon)), lon)

\* the accumulators of the run, and those of every other order and sharding
\* of its granules
HodRun == [hod_sum |-> hod_sum, hod_cnt |-> hod_cnt, hour_counts |-> hour_counts]

HodVariants ==
    {hod_loop(Permuted(stack_in, p), 1, hod_zero, lon2d) : p \in Perms(Len(stack_in))}
    \cup {AccAll(stack_in, bs, 1, hod_zero, lon2d) : bs \in OrderedPartitions(1..Len(stack_in))}

\* no addition that makes the sum of cell c in hour h rounds: the
\* contributions are positive and their exact sum is a float
SumIsExact(c, h) == SumCell(Contrib(c, h), c) < Pow2(FloatBits)

\* C22 as stated: every order and every sharding of the granules gives the
\* same per-cell sums, counts, means and per-hour counters as the run.
C22_OrderAndShardIndependent ==
    hodPc = "returned" =>
        \A v \in HodVariants :
            /\ v = HodRun
            /\ \A h \in Hours, c \in Cells :
                 hod_mean(v.hod_sum[h][c], v.hod_cnt[h][c], min_per_hour) = hod_grids[h][c]

\* C22 amended: every order and every sharding of the granules gives the same
\* per-cell counts and per-hour counters, and means for the same cells and
\* hours, as the run; the per-cell sum and the mean are the same wherever no
\* addition rounds, and where one does each is the exact sum rounded at most
\* once per addition, in an order-dependent way (a difference can first arise
\* with three contributions to one cell and hour).
C22_SameUpToRounding ==
    hodPc = "returned" =>
        LET V == HodVariants
        IN  /\ \A v \in V : v.hod_cnt = hod_cnt /\ v.hour_counts = hour_counts
            /\ \A h \in Hours, c \in Cells :
                 /\ \A v \in V :
                      (hod_mean(v.hod_sum[h][c], v.hod_cnt[h][c], min_per_hour) = RNaN)
                         = (hod_grids[h][c] = RNaN)
                 /\ (hod_cnt[h][c] < 3 \/ SumIsExact(c, h)) =>
                      \A v \in V :
                         /\ v.hod_sum[h][c] = hod_sum[h][c]
                         /\ hod_mean(v.hod_sum[h][c], v.hod_cnt[h][c], min_per_hour)
                              = hod_grids[h][c]

\* three granules of one end timestamp with 1, 1 and 20 in the first cell:
\* the run sums 1 + 1 + 20 to 22, the reversed order 20 + 1 + 1 gives 20, and
\* the shards {20} and {1, 1} merged give 20 + 2 = 22; the count is 3 each time
C22_Witness ==
    /\ hodPc = "returned"
    /\ Len(stack_in) = 3
    /\ \A i \in 1..3 : stack_in[i].end_ts = 1800
    /\ stack_in[1].grid[<<1, 1>>] = Fin(1, 0)
    /\ stack_in[2].grid[<<1, 1>>] = Fin(1, 0)
    /\ stack_in[3].grid[<<1, 1>>] = Fin(2, 1)
    /\ \E h \in Hours :
         /\ hod_cnt[h][<<1, 1>>] = 3
         /\ hod_sum[h][<<1, 1>>] = 22
         /\ hod_loop(Permuted(stack_in, <<3, 2, 1>>), 1, hod_zero, lon2d).hod_sum[h][<<1, 1>>] = 20
         /\ hod_loop(Permuted(stack_in, <<3, 2, 1>>), 1, hod_zero, lon2d).hod_cnt[h][<<1, 1>>] = 3
         /\ AccAll(stack_in, <<{3}, {1, 2}>>, 1, hod_zero, lon2d).hod_sum[h][<<1, 1>>] = 22

\* ---------- SpecMain: one aggregation run over granule files ----------

MaxFiles == 3

\* the cells of a grid of shape <<H, W>>
ShapeCells(shape) == (1..shape[1]) \X (1..shape[2])

Max(S) == CHOOSE x \in S : \A y \in S : y <= x

\* data0.shape, grid.shape
grid_shape(grid) ==
    <<Max({c[1] : c \in DOMAIN grid}), Max({c[2] : c \in DOMAIN grid})>>

\* mutant: only the number of rows is compared
shape_differs_rows(grid, H, W) == grid_shape(grid)[1] # H

\* grid.shape != (H, W)
shape_differs(grid, H, W) == grid_shape(grid) # <<H, W>>

\* the loading loop of main over granules[i..]: a file that cannot be read or
\* has no "data", and a grid of another shape, are passed over; the others
\* are sanitized and appended
RECURSIVE load_grids(_, _, _, _, _, _)
load_grids(granules, i, H, W, product, acc) ==
    IF i > Len(granules) THEN acc
    ELSE LET g == granules[i]
         IN  IF ~g.has_data THEN load_grids(granules, i + 1, H, W, product, acc)
             ELSE IF shape_differs(g.grid, H, W)
                  THEN load_grids(granules, i + 1, H, W, product, acc)
                  ELSE load_grids(granules, i + 1, H, W, product,
                                  Append(acc, [end_ts |-> g.end_ts,
                                               grid |-> sanitize_grid(g.grid, product)]))

\* r < v and r > v for a mean r and a limit v; the means of the model are
\* below 10^9 in magnitude, and a limit of a larger exponent is beyond them
MeanLt(r, v) == IF v.e > 8 THEN v.m > 0 ELSE r.num < Val(v) * r.den

MeanGt(r, v) == IF v.e > 8 THEN v.m < 0 ELSE r.num > Val(v) * r.den

\* sanitize_grid on one cell of a mean grid
sanitize_mean(r, product) ==
    LET spec == spec_for(product)
        g3 == IF r.k = "nan" THEN RNaN
              ELSE IF MeanLt(r, ABSURD_NEG) \/ MeanGt(r, ABSURD_POS) THEN RNaN
              ELSE r
        g4 == IF g3.k = "nan" THEN RNaN
              ELSE IF ~spec.allow_zero
                   THEN (IF g3.num <= 0 THEN RNaN ELSE g3)
                   ELSE (IF MeanLt(g3, spec.min) THEN Rat(Val(spec.min), 1) ELSE g3)
    IN  IF g4.k = "nan" THEN RNaN
        ELSE IF MeanGt(g4, spec.max) THEN Rat(Val(spec.max), 1) ELSE g4

\* the grids of the expected shape: a zero (invalid for no2) and a missing cell
MainGrids ==
    {[c \in Cells |-> IF c = <<1, 1>> THEN Fin(3, 0) ELSE Zero],
     [c \in Cells |-> IF c = <<1, 1>> THEN NaN ELSE Fin(5, 0)]}

\* the other shapes: more rows, more columns
OtherShapes == {<<2, 2>>, <<1, 3>>}

OtherGrids == {[c \in ShapeCells(sh) |-> Fin(5, 0)] : sh \in OtherShapes}

\* a granule file: readable with "data", or not
MainFiles ==
    [end_ts : AggTs, has_data : {TRUE}, grid : MainGrids \cup OtherGrids]
    \cup [end_ts : {1800}, has_data : {FALSE}, grid : {[c \in ShapeCells(<<0, 0>>) |-> NaN]}]

\* the "lon" axis of the files: the two columns are in different local hours
MainLonAxes == {<<-10, 10>>}

\* the builders of the model work on grids of the shape of Cells, so the file
\* that is first in time order has that shape, or no data
InitMain ==
    /\ SanIdle
    /\ AggIdle
    /\ BlkIdle
    /\ RixIdle
    /\ LonIdle
    /\ HourIdle /\ CvIdle /\ SyIdle /\ StepIdle
    /\ mainPc = "ready"
    /\ main_product = "no2"
    /\ main_granules \in UNION {[1..n -> MainFiles] : n \in 0..MaxFiles}
    /\ IF main_granules = <<>> THEN TRUE
       ELSE LET first == sort_by_end_ts(main_granules)[1]
            IN  first.has_data => DOMAIN first.grid = Cells
    /\ main_lon \in MainLonAxes
    /\ main_H = 0
    /\ main_W = 0

\* main from the sorting of the granules to the two builders: the shape is
\* that of the first granule in time order, the loading loop keeps the grids
\* of that shape, and both builders get the list
Main ==
    /\ mainPc = "ready"
    /\ LET granules == sort_by_end_ts(main_granules)
       IN  IF granules = <<>> \/ ~granules[1].has_data
           THEN /\ mainPc' = "exit"
                /\ UNCHANGED <<main_H, main_W, aggVars>>
           ELSE LET shape == grid_shape(granules[1].grid)
                    stack == load_grids(granules, 1, shape[1], shape[2], main_product, <<>>)
                IN  /\ main_H' = shape[1]
                    /\ main_W' = shape[2]
                    /\ IF stack = <<>>
                       THEN /\ mainPc' = "exit"
                            /\ UNCHANGED aggVars
                       ELSE \E now \in NowSet, mph \in MinPerHourSet :
                              \E r \in {build_latest(stack, now)} :
                                \E q \in {build_hod(r.sorted, tile(main_lon), mph)} :
                                  /\ stack_in' = stack
                                  /\ values_stack' = r.sorted
                                  /\ latest' = r.latest
                                  /\ latest_ts' = r.latest_ts
                                  /\ age_h' = r.age_h
                                  /\ newest_end_ts' = r.newest_end_ts
                                  /\ now_ts' = now
                                  /\ latestPc' = "returned"
                                  /\ lon2d' = tile(main_lon)
                                  /\ min_per_hour' = mph
                                  /\ hod_sum' = q.hod_sum
                                  /\ hod_cnt' = q.hod_cnt
                                  /\ hour_counts' = q.hour_counts
                                  /\ hod_grids' = [h \in Hours |-> [c \in Cells |->
                                                     sanitize_mean(q.hod_grids[h][c], main_product)]]
                                  /\ hodPc' = "returned"
                                  /\ mainPc' = "done"
    /\ UNCHANGED <<main_product, main_granules, main_lon>>
    /\ UNCHANGED <<sanVars, blkVars, rixVars, lonVars, hourVars, cvVars, syVars, stepVars>>

NextMain == Main

SpecMain == InitMain /\ [][NextMain]_vars

\* ---------- properties of the aggregation run (SpecMain) ----------

\* the granule files in time order
SortedFiles == sort_by_end_ts(main_granules)

\* the files of the sorted list fs with data of the shape of the first one
KeptFiles(fs) ==
    {i \in 1..Len(fs) : fs[i].has_data /\ DOMAIN fs[i].grid = DOMAIN fs[1].grid}

\* the files of fs that are passed over because of their shape
SkippedForShape(fs) ==
    {i \in 1..Len(fs) : fs[i].has_data /\ DOMAIN fs[i].grid # DOMAIN fs[1].grid}

\* the files of K in which cell c is valid after sanitization
KeptFinite(fs, K, c) ==
    {i \in K : IsFinite(sanitize_grid_cell(fs[i].grid[c], main_product))}

\* the local hour of cell c in file i
FileHour(fs, i, c) == compute_local_hour(fs[i].end_ts, lon2d[c])

\* the list s is the files of S in their order, sanitized
RECURSIVE IsSubsequence(_, _, _, _)
IsSubsequence(s, fs, S, k) ==
    IF S = {} THEN Len(s) = k - 1
    ELSE LET i == CHOOSE x \in S : \A y \in S : x <= y
         IN  /\ k <= Len(s)
             /\ s[k].end_ts = fs[i].end_ts
             /\ s[k].grid = sanitize_grid(fs[i].grid, main_product)
             /\ IsSubsequence(s, fs, S \ {i}, k + 1)

\* C27: in a run of main that reaches the builders, every grid handed to them
\* has the shape of the first granule in time order; the list handed over is
\* the readable granules of that shape, sanitized, in time order, so a granule
\* of another shape is passed over and the others are still aggregated; the
\* latest snapshot holds for every cell the value of the last kept granule in
\* which it is valid, and the cell counts and the counter of every hour count
\* kept granules only.
C27_ShapeAgreement ==
    mainPc = "done" =>
        LET fs == SortedFiles
            K == KeptFiles(fs)
        IN  /\ <<main_H, main_W>> = grid_shape(fs[1].grid)
            /\ \A i \in 1..Len(stack_in) : grid_shape(stack_in[i].grid) = <<main_H, main_W>>
            /\ IsSubsequence(stack_in, fs, K, 1)
            /\ values_stack = stack_in
            /\ \A c \in Cells :
                 LET F == KeptFinite(fs, K, c)
                 IN  /\ IF F = {} THEN ~IsFinite(latest[c])
                        ELSE /\ latest[c] = sanitize_grid_cell(fs[Max(F)].grid[c], main_product)
                             /\ latest_ts[c] = fs[Max(F)].end_ts
                     /\ \A h \in Hours :
                          hod_cnt[h][c] = Cardinality({i \in F : FileHour(fs, i, c) = h})
            /\ \A h \in Hours :
                 hour_counts[h] =
                    Cardinality({i \in K : \E c \in Cells :
                                    i \in KeptFinite(fs, K, c) /\ FileHour(fs, i, c) = h})

\* three files of one end timestamp; the second has one more column than the
\* first and is passed over, the first and the third are aggregated: the
\* first gives the first cell (hour 23), the third the second cell (hour 1)
C27_Witness ==
    /\ mainPc = "done"
    /\ Len(main_granules) = 3
    /\ \A i \in 1..3 : main_granules[i].end_ts = 1800 /\ main_granules[i].has_data
    /\ grid_shape(main_granules[1].grid) = <<1, 2>>
    /\ grid_shape(main_granules[2].grid) = <<1, 3>>
    /\ main_granules[3].grid = [c \in Cells |-> IF c = <<1, 1>> THEN NaN ELSE Fin(5, 0)]
    /\ main_granules[1].grid[<<1, 1>>] = Fin(3, 0)
    /\ SkippedForShape(SortedFiles) = {2}
    /\ Len(values_stack) = 2
    /\ latest = [c \in Cells |-> IF c = <<1, 1>> THEN Fin(3, 0) ELSE Fin(5, 0)]
    /\ hour_counts[23] = 1
    /\ hour_counts[1] = 1
    /\ hod_cnt[23] = [c \in Cells |-> IF c = <<1, 1>> THEN 1 ELSE 0]
    /\ hod_cnt[1] = [c \in Cells |-> IF c = <<1, 1>> THEN 0 ELSE 1]

====
